---- MODULE Spec2Model ----
(***************************************************************************)
(* Risk decision engine of FraudLens AI: the two-phase orchestration of    *)
(* fraudlens.py / medical_lens.py and the ensemble scorer of               *)
(* agents/scoring_agent.py.                                                *)
(*                                                                         *)
(* Numbers.  Scores are held in twentieths of a point (Pts(80) = 1600), so *)
(* that the medical blend 0.4/0.35/0.25 and the inconsistency severities   *)
(* stay exact.  Weights are rationals [num, den]: a base weight 0.30 is    *)
(* 300/1000, and after renormalisation by 1/W it is 300/W.  The weighted   *)
(* sum is the rational [n, d]; overall_score is that value rounded to      *)
(* tenths, confidence is held in hundredths.                               *)
(***************************************************************************)
EXTENDS Integers, Sequences, FiniteSets, TLC

Pts(n) == n * 20

RECURSIVE SumSeq(_)
SumSeq(s) == IF s = << >> THEN 0 ELSE Head(s) + SumSeq(Tail(s))

\* round(n/d) to the nearest integer, ties to even (Python round), n >= 0, d > 0
RoundHalfEven(n, d) ==
    LET q == n \div d
        r == n % d
    IN  IF 2 * r < d THEN q
        ELSE IF 2 * r > d THEN q + 1
        ELSE IF q % 2 = 0 THEN q ELSE q + 1

Abs(x) == IF x < 0 THEN 0 - x ELSE x

(***************************************************************************)
(* Values a signal source can hand to the orchestrator.                    *)
(***************************************************************************)
None == [tag |-> "none"]
NotAMapping == [tag |-> "bad"]
Raised == [tag |-> "exc"]
Pending == [tag |-> "pending"]
Dict(status, score) == [tag |-> "dict", status |-> status, numeric |-> TRUE, score |-> score]
DictBadScore(status) == [tag |-> "dict", status |-> status, numeric |-> FALSE, score |-> 0]
\* a deepfake result of the identity-document context, carrying ai_generated_score
DictAI(status, score, ai) ==
    [tag |-> "dict", status |-> status, numeric |-> TRUE, score |-> score, ai |-> ai]

IsDict(r) == r.tag = "dict"
\* Python truthiness of a result: None is falsy, every modelled mapping is non-empty
Truthy(r) == r.tag # "none"
IsException(r) == r.tag = "exc"

(***************************************************************************)
(* ScoringAgent                                                            *)
(***************************************************************************)
\* RIGID_SCORING switches are read from the environment at each call
WEIGHTS ==
    [inconsistency |-> 300, pattern_match |-> 250, network_risk |-> 200,
     claim_characteristics |-> 150, deepfake |-> 100]

WEIGHTS_ID ==
    [inconsistency |-> 200, pattern_match |-> 200, deepfake |-> 200,
     id_consistency |-> 300, claim_characteristics |-> 100]

NoOverride == [given |-> FALSE, map |-> << >>]
Override(m) == [given |-> TRUE, map |-> m]

\* lines 103-108: keys of the override replace the base table, others fall back
EffectiveWeights(use_id_weights, weights) ==
    LET base_weights == IF use_id_weights THEN WEIGHTS_ID ELSE WEIGHTS
    IN  IF weights.given
        THEN [k \in DOMAIN base_weights |->
                 IF k \in DOMAIN weights.map THEN weights.map[k] ELSE base_weights[k]]
        ELSE base_weights

\* _score_claim_characteristics_local: claim_data is abstracted to the four
\* facts the function reads
HighAmount == 100000

ScoreClaimCharacteristicsLocal(claim_data) ==
    LET amountPos == claim_data.amount > 0
        s1 == IF amountPos
              THEN (IF claim_data.amount > HighAmount THEN 20 ELSE 0)
              ELSE (IF claim_data.text_high_amount THEN 15 ELSE 0)
        f1 == s1 > 0
        s2 == IF claim_data.soft_tissue_injury THEN 15 ELSE 0
        f2 == s2 > 0
        s3 == IF ~f1 /\ ~f2 /\ claim_data.text_soft_tissue THEN 10 ELSE 0
        total == s1 + s2 + s3
    IN  Pts(IF total < 100 THEN total ELSE 100)

\* the identity-document flow is read with the default cutpoints in rigid mode
GetRiskLevelIdDefault(n, d, is_id_flow, rigid) ==
    LET hi == IF rigid /\ ~is_id_flow THEN 68 ELSE 75
        mid == IF rigid /\ ~is_id_flow THEN 42 ELSE 50
        lo == IF rigid /\ ~is_id_flow THEN 18 ELSE 25
    IN  IF n >= Pts(hi) * d THEN "critical"
        ELSE IF n >= Pts(mid) * d THEN "high"
        ELSE IF n >= Pts(lo) * d THEN "medium"
        ELSE "low"

\* the top cutpoint is tested with > and each lower band with both of its ends,
\* so a score exactly on the top cutpoint falls through to low
GetRiskLevelOpenTop(n, d, is_id_flow, rigid) ==
    LET hi == IF rigid THEN (IF is_id_flow THEN 62 ELSE 68) ELSE 75
        mid == IF rigid THEN (IF is_id_flow THEN 35 ELSE 42) ELSE 50
        lo == IF rigid THEN (IF is_id_flow THEN 12 ELSE 18) ELSE 25
    IN  IF n > Pts(hi) * d THEN "critical"
        ELSE IF n >= Pts(mid) * d /\ n < Pts(hi) * d THEN "high"
        ELSE IF n >= Pts(lo) * d /\ n < Pts(mid) * d THEN "medium"
        ELSE "low"

\* the final "return low" is missing from the default profile
GetRiskLevelNoLow(n, d, is_id_flow, rigid) ==
    IF rigid
    THEN IF is_id_flow
         THEN IF n >= Pts(62) * d THEN "critical"
              ELSE IF n >= Pts(35) * d THEN "high"
              ELSE IF n >= Pts(12) * d THEN "medium"
              ELSE "low"
         ELSE IF n >= Pts(68) * d THEN "critical"
              ELSE IF n >= Pts(42) * d THEN "high"
              ELSE IF n >= Pts(18) * d THEN "medium"
              ELSE "low"
    ELSE IF n >= Pts(75) * d THEN "critical"
         ELSE IF n >= Pts(50) * d THEN "high"
         ELSE IF n >= Pts(25) * d THEN "medium"
         ELSE "unknown"

\* _get_risk_level on the rational score n/d (d > 0)
GetRiskLevel(n, d, is_id_flow, rigid) ==
    IF rigid
    THEN IF is_id_flow
         THEN IF n >= Pts(62) * d THEN "critical"
              ELSE IF n >= Pts(35) * d THEN "high"
              ELSE IF n >= Pts(12) * d THEN "medium"
              ELSE "low"
         ELSE IF n >= Pts(68) * d THEN "critical"
              ELSE IF n >= Pts(42) * d THEN "high"
              ELSE IF n >= Pts(18) * d THEN "medium"
              ELSE "low"
    ELSE IF n >= Pts(75) * d THEN "critical"
         ELSE IF n >= Pts(50) * d THEN "high"
         ELSE IF n >= Pts(25) * d THEN "medium"
         ELSE "low"

GetRecommendation(risk_level, rigid) ==
    IF risk_level = "critical" THEN "DENY - Refer to SIU immediately"
    ELSE IF risk_level = "high" THEN "INVESTIGATE - Assign to fraud analyst"
    ELSE IF risk_level = "medium" THEN "REVIEW - Additional documentation required"
    ELSE IF risk_level = "low"
         THEN (IF rigid THEN "REVIEW - Verify before approval (rigid mode)"
                        ELSE "APPROVE - Proceed with standard processing")
    ELSE "REVIEW"

ConfAllZero == 85
ConfFloor == 50
ConfCeil == 95

\* the upper clamp is left out: full agreement reports confidence 1.0
CalculateConfidenceNoCeil(risk_factors) ==
    LET all_scores == [i \in 1..Len(risk_factors) |-> risk_factors[i].score]
        active == SelectSeq(all_scores, LAMBDA s : s > 0)
        k == Len(active)
        S == SumSeq(active)
        Q == SumSeq([i \in 1..k |-> active[i] * active[i]])
        vn == k * Q - S * S
        cd == k * k * 10000
        cn == 100 * cd - vn
    IN  IF k = 0 THEN [n |-> ConfAllZero, d |-> 1]
        ELSE IF cn < ConfFloor * cd THEN [n |-> ConfFloor, d |-> 1]
        ELSE [n |-> cn, d |-> cd]

\* the all-zero case falls back to the floor instead of the high constant
CalculateConfidenceNoAgree(risk_factors) ==
    LET all_scores == [i \in 1..Len(risk_factors) |-> risk_factors[i].score]
        active == SelectSeq(all_scores, LAMBDA s : s > 0)
        k == Len(active)
        S == SumSeq(active)
        Q == SumSeq([i \in 1..k |-> active[i] * active[i]])
        vn == k * Q - S * S
        cd == k * k * 10000
        cn == 100 * cd - vn
    IN  IF k = 0 THEN [n |-> ConfFloor, d |-> 1]
        ELSE IF cn < ConfFloor * cd THEN [n |-> ConfFloor, d |-> 1]
        ELSE IF cn > ConfCeil * cd THEN [n |-> ConfCeil, d |-> 1]
        ELSE [n |-> cn, d |-> cd]

\* _calculate_confidence before the final round(confidence, 2): the rational
\* [n, d] of 100 * confidence.  With k active scores of sum S and square sum
\* Q (in twentieths), variance = (k*Q - S*S) / (400 * k^2) points^2, and
\* 100 * (1 - variance / 2500) = 100 - (k*Q - S*S) / (10000 * k^2).
CalculateConfidence(risk_factors) ==
    LET all_scores == [i \in 1..Len(risk_factors) |-> risk_factors[i].score]
        active == SelectSeq(all_scores, LAMBDA s : s > 0)
        k == Len(active)
        S == SumSeq(active)
        Q == SumSeq([i \in 1..k |-> active[i] * active[i]])
        vn == k * Q - S * S
        cd == k * k * 10000
        cn == 100 * cd - vn
    IN  IF Len(all_scores) = 0 THEN [n |-> ConfFloor, d |-> 1]
        ELSE IF k = 0 THEN [n |-> ConfAllZero, d |-> 1]
        ELSE IF cn < ConfFloor * cd THEN [n |-> ConfFloor, d |-> 1]
        ELSE IF cn > ConfCeil * cd THEN [n |-> ConfCeil, d |-> 1]
        ELSE [n |-> cn, d |-> cd]

Max(a, b) == IF a >= b THEN a ELSE b

RiskFactor(name, r, weight) ==
    [name |-> name, score |-> r.score, numeric |-> r.numeric,
     weight |-> [num |-> weight, den |-> 1000]]

\* lines 143-175: the Image Authenticity factor reads the score only when the
\* status is success; skipped/error results still add the factor, with score 0
DeepfakeFactorScore(deepfake_results, use_id_weights) ==
    IF deepfake_results.status = "success"
    THEN IF use_id_weights /\ "ai" \in DOMAIN deepfake_results
         THEN [score |-> Max(deepfake_results.score, deepfake_results.ai),
               numeric |-> deepfake_results.numeric]
         ELSE [score |-> deepfake_results.score, numeric |-> deepfake_results.numeric]
    ELSE [score |-> 0, numeric |-> TRUE]

\* lines 113-197: the factor list, in the order the code appends
BuildRiskFactors(claim_data, inconsistency_results, pattern_results, network_results, deepfake_results, id_consistency_results, w) ==
    LET use_id_weights == id_consistency_results.tag # "none"
        netF == IF Truthy(network_results) /\ ~use_id_weights
                THEN << RiskFactor("Network/Ring Risk", network_results, w.network_risk) >>
                ELSE << >>
        dfF  == IF Truthy(deepfake_results)
                THEN << RiskFactor("Image Authenticity",
                                   DeepfakeFactorScore(deepfake_results, use_id_weights),
                                   w.deepfake) >>
                ELSE << >>
        idF  == IF use_id_weights
                THEN << RiskFactor("ID Plausibility", id_consistency_results, w.id_consistency) >>
                ELSE << >>
        claimF == << RiskFactor("Claim Characteristics",
                                [score |-> ScoreClaimCharacteristicsLocal(claim_data),
                                 numeric |-> TRUE],
                                w.claim_characteristics) >>
    IN  << RiskFactor("Inconsistencies", inconsistency_results, w.inconsistency),
           RiskFactor("Fraud Pattern Match", pattern_results, w.pattern_match) >>
        \o netF \o dfF \o idF \o claimF

\* what the try block of calculate_score turns into the error result: a .get on
\* a value that is not a mapping, or arithmetic on a non-numeric score
ScoreRaises(inconsistency_results, pattern_results, network_results, deepfake_results, id_consistency_results) ==
    LET use_id_weights == id_consistency_results.tag # "none"
    IN  \/ ~IsDict(inconsistency_results)
        \/ ~IsDict(pattern_results)
        \/ Truthy(network_results) /\ ~use_id_weights /\ ~IsDict(network_results)
        \/ Truthy(deepfake_results) /\ ~IsDict(deepfake_results)
        \/ use_id_weights /\ ~IsDict(id_consistency_results)
        \/ ~inconsistency_results.numeric
        \/ ~pattern_results.numeric
        \/ Truthy(network_results) /\ ~use_id_weights /\ ~network_results.numeric
        \/ Truthy(deepfake_results) /\ deepfake_results.status = "success"
              /\ ~deepfake_results.numeric
        \/ use_id_weights /\ ~id_consistency_results.numeric

RenormTolerance == 10

\* the rescaling step is left out
RenormalizeOff(risk_factors) == risk_factors

\* lines 202-206: weights are rescaled by 1/total_weight only when the total is
\* positive and more than 0.01 away from 1.0
Renormalize(risk_factors) ==
    LET total_weight == SumSeq([i \in 1..Len(risk_factors) |-> risk_factors[i].weight.num])
    IN  IF total_weight > 0 /\ Abs(total_weight - 1000) > RenormTolerance
        THEN [i \in 1..Len(risk_factors) |->
                 [risk_factors[i] EXCEPT !.weight = [num |-> @.num, den |-> total_weight]]]
        ELSE risk_factors

\* line 207: sum(f.score * f.weight), the rational [n, d] in twentieths
WeightedSum(risk_factors) ==
    [n |-> SumSeq([i \in 1..Len(risk_factors) |->
                      risk_factors[i].score * risk_factors[i].weight.num]),
     d |-> risk_factors[1].weight.den]

\* the nudge is 10 points
NudgeTen(o, rigid, use_id_weights) ==
    IF rigid /\ use_id_weights /\ o.n > 0 /\ o.n < Pts(50) * o.d
    THEN [n |-> o.n + Pts(10) * o.d, d |-> o.d]
    ELSE o

\* the nudge is applied to a score of exactly 0 as well
NudgeFromZero(o, rigid, use_id_weights) ==
    IF rigid /\ use_id_weights /\ o.n >= 0 /\ o.n < Pts(50) * o.d
    THEN [n |-> o.n + Pts(5) * o.d, d |-> o.d]
    ELSE o

\* the nudge is applied in every flow
NudgeEveryFlow(o, rigid, use_id_weights) ==
    IF rigid /\ o.n > 0 /\ o.n < Pts(50) * o.d
    THEN [n |-> o.n + Pts(5) * o.d, d |-> o.d]
    ELSE o

\* lines 208-210: the rigid identity-document nudge
Nudge(o, rigid, use_id_weights) ==
    IF rigid /\ use_id_weights /\ o.n > 0 /\ o.n < Pts(50) * o.d
    THEN IF o.n + Pts(5) * o.d > Pts(100) * o.d
         THEN [n |-> Pts(100) * o.d, d |-> o.d]
         ELSE [n |-> o.n + Pts(5) * o.d, d |-> o.d]
    ELSE o

ErrorResult == [status |-> "error", overall_score |-> 0, risk_level |-> "unknown"]

\* ScoringAgent.calculate_score; overall_score in tenths, confidence in hundredths
CalculateScore(claim_data, inconsistency_results, pattern_results, network_results, deepfake_results, id_consistency_results, weights, rigid) ==
    LET use_id_weights == id_consistency_results.tag # "none"
        w == EffectiveWeights(use_id_weights, weights)
    IN  IF ScoreRaises(inconsistency_results, pattern_results, network_results,
                       deepfake_results, id_consistency_results)
        THEN ErrorResult
        ELSE LET risk_factors ==
                     Renormalize(BuildRiskFactors(claim_data, inconsistency_results,
                         pattern_results, network_results, deepfake_results,
                         id_consistency_results, w))
                 overall == Nudge(WeightedSum(risk_factors), rigid, use_id_weights)
                 risk_level == GetRiskLevel(overall.n, overall.d, use_id_weights, rigid)
                 confidence == CalculateConfidence(risk_factors)
             IN  [status |-> "success",
                  overall_score |-> RoundHalfEven(10 * overall.n, Pts(1) * overall.d),
                  risk_level |-> risk_level,
                  confidence |-> RoundHalfEven(confidence.n, confidence.d),
                  risk_factors |-> risk_factors,
                  recommendation |-> GetRecommendation(risk_level, rigid),
                  reasoning |-> ""]

(***************************************************************************)
(* Signal sources.  env[s] is what the world does to source s in this      *)
(* case: mode "ok" (the backend answers, score is the source's finding),   *)
(* "backend_down" (the LLM / vector store / vision model call fails inside *)
(* the agent), "skipped", "internal_error", "raise" (the coroutine raises  *)
(* into gather), "hang" (it never completes), and the two malformed        *)
(* outputs "badscore" and "notmap".                                        *)
(***************************************************************************)
Env(mode, score) == [mode |-> mode, score |-> score, matches |-> << >>]
EnvMatches(matches) == [mode |-> "backend_down", score |-> 0, matches |-> matches]
NotLaunched == Env("absent", 0)

Malformed(e) == IF e.mode = "badscore" THEN DictBadScore("success") ELSE NotAMapping

Min(a, b) == IF a <= b THEN a ELSE b

\* PatternAgent._calculate_pattern_score_from_dicts: 15 + sum over the first five
\* matches of 0.4 * severity weight * 25, capped at 100
SeverityFallbackPts(sev) ==
    IF sev = "critical" THEN 10 ELSE IF sev = "high" THEN 7
    ELSE IF sev = "medium" THEN 4 ELSE IF sev = "low" THEN 2 ELSE 4

CalculatePatternScoreFromDicts(matches) ==
    IF matches = << >> THEN Pts(15)
    ELSE Min(Pts(100),
             Pts(15) + Pts(SumSeq([i \in 1..Min(5, Len(matches)) |->
                                      SeverityFallbackPts(matches[i])])))

\* PatternAgent.analyze: a failure of the vector search is answered by
\* _fallback_analyze (keyword matches, status fallback)
PatternAgentAnalyze(e) ==
    IF e.mode = "ok" THEN Dict("success", e.score)
    ELSE IF e.mode = "backend_down"
         THEN Dict("fallback", CalculatePatternScoreFromDicts(e.matches))
    ELSE Malformed(e)

\* InconsistencyAgent.analyze: failed LLM checks are swallowed one by one and the
\* numerical check (e.score) stands alone; an error in the outer try is retried
\* with the numerical check only (baseline 10 when it finds nothing), and the
\* error result is returned when the retry fails as well
InconsistencyAgentAnalyze(e) ==
    IF e.mode \in {"ok", "backend_down"} THEN Dict("success", e.score)
    ELSE IF e.mode = "internal_error_retry_ok"
         THEN Dict("fallback", IF e.score = 0 THEN Pts(10) ELSE e.score)
    ELSE IF e.mode = "internal_error" THEN Dict("error", 0)
    ELSE Malformed(e)

\* NetworkAgent.analyze: any exception becomes the error result with score 0
NetworkAgentAnalyze(e) ==
    IF e.mode = "ok" THEN Dict("success", e.score)
    ELSE IF e.mode = "backend_down" THEN Dict("error", 0)
    ELSE Malformed(e)

\* DeepfakeAgent.analyze as the orchestrator receives it, by the shape of the
\* answer: success with a manipulation_score (lines 80-96), status skipped
\* (lines 47 and 69) and the error result (line 100), the last two with
\* manipulation_score 0; the agent itself is followed image by image in
\* DeepfakeSpec
DeepfakeAgentAnalyze(e) ==
    IF e.mode = "ok" THEN Dict("success", e.score)
    ELSE IF e.mode = "skipped" THEN Dict("skipped", 0)
    ELSE IF e.mode = "backend_down" THEN Dict("error", 0)
    ELSE Malformed(e)

\* Billing / clinical / eligibility agents: the parsed LLM answer is returned as
\* is (no status key); any exception gives risk_score 0
MedicalAgentAnalyze(e) ==
    IF e.mode = "ok" THEN Dict("", e.score)
    ELSE IF e.mode = "backend_down" THEN Dict("", 0)
    ELSE Malformed(e)

AgentAnalyze(source, e) ==
    IF source = "inconsistency" THEN InconsistencyAgentAnalyze(e)
    ELSE IF source = "pattern" THEN PatternAgentAnalyze(e)
    ELSE IF source = "network" THEN NetworkAgentAnalyze(e)
    ELSE IF source = "deepfake" THEN DeepfakeAgentAnalyze(e)
    ELSE MedicalAgentAnalyze(e)

(***************************************************************************)
(* Orchestrators: FraudLensAI._run_analysis (flow "insurance") and         *)
(* MedicalClaimLensAI.analyze (flow "medical").                            *)
(***************************************************************************)
VARIABLES
    flow, claim_data, include_network, include_deepfake, image_paths, rigid, env,
    weights, id_consistency_results,
    pc, tasks, finished, results, out_of_order,
    inconsistency_result, pattern_result, network_result, deepfake_result,
    billing_result, clinical_result, eligibility_result,
    score_result, phase4, analysis_result,
    score_again,
    RIGID_SCORING, lv_is_id_flow, lv_score, lv_risk_level, lv_recommendation,
    y_true, y_score, sweep, call_args, opt_result, calibrator,
    rows, eval_results, report,
    applied,
    nim_vision_unavailable, image_analysis,
    vector_store, collection

inputs == << flow, claim_data, include_network, include_deepfake, image_paths, rigid,
             env, weights, id_consistency_results >>
unpacked == << inconsistency_result, pattern_result, network_result, deepfake_result,
               billing_result, clinical_result, eligibility_result >>
\* the state of the stand-alone procedures: the threshold profile functions, the
\* metrics and calibration functions, and the batch evaluator
profilevars == << RIGID_SCORING, lv_is_id_flow, lv_score, lv_risk_level, lv_recommendation >>
metricvars == << y_true, y_score, sweep, call_args, opt_result, calibrator >>
evalvars == << rows, eval_results, report >>
servicevars == << applied, nim_vision_unavailable, image_analysis, vector_store, collection >>
offline == << profilevars, metricvars, evalvars, servicevars >>
vars == << inputs, pc, tasks, finished, results, out_of_order, unpacked, score_result, phase4,
           analysis_result, score_again, offline >>

\* none of the stand-alone procedures has been called
ProfileIdle ==
    /\ RIGID_SCORING = "unset"
    /\ lv_is_id_flow = FALSE
    /\ lv_score = 0
    /\ lv_risk_level = ""
    /\ lv_recommendation = ""

MetricsIdle ==
    /\ y_true = << >>
    /\ y_score = << >>
    /\ sweep = << >>
    /\ call_args = None
    /\ opt_result = None
    /\ calibrator = None

EvalIdle ==
    /\ rows = << >>
    /\ eval_results = << >>
    /\ report = None

\* nothing calibrated, no image analysed, no pattern store opened
ServiceIdle ==
    /\ applied = << >>
    /\ nim_vision_unavailable = "undefined"
    /\ image_analysis = None
    /\ vector_store = None
    /\ collection = None

OfflineIdle == ProfileIdle /\ MetricsIdle /\ EvalIdle /\ ServiceIdle

MaxMatches == 1

Severities == {"high", "low"}
RECURSIVE SeqsUpTo(_, _)
SeqsUpTo(S, n) ==
    IF n = 0 THEN { << >> }
    ELSE SeqsUpTo(S, n - 1) \cup
         { Append(q, x) : q \in { t \in SeqsUpTo(S, n - 1) : Len(t) = n - 1 }, x \in S }

ClaimPayloads ==
    { [amount |-> 5000, text_high_amount |-> FALSE, soft_tissue_injury |-> FALSE,
       text_soft_tissue |-> FALSE],
      [amount |-> 0, text_high_amount |-> FALSE, soft_tissue_injury |-> FALSE,
       text_soft_tissue |-> TRUE] }

InconsistencyEnvs ==
    { Env("ok", 0), Env("ok", Pts(80)), Env("internal_error_retry_ok", 0),
      Env("internal_error", 0), Env("raise", 0), Env("hang", 0), Env("notmap", 0) }
PatternEnvs ==
    { Env("ok", 0), Env("ok", Pts(20)), Env("raise", 0), Env("badscore", 0) }
    \cup { EnvMatches(m) : m \in SeqsUpTo(Severities, MaxMatches) }
NetworkEnvs ==
    { Env("ok", Pts(60)), Env("backend_down", 0), Env("raise", 0), Env("hang", 0),
      Env("notmap", 0) }
DeepfakeEnvs ==
    { Env("ok", Pts(90)), Env("skipped", 0), Env("backend_down", 0), Env("raise", 0),
      Env("badscore", 0) }
MedicalEnvs ==
    { Env("ok", 0), Env("ok", Pts(60)), Env("raise", 0), Env("hang", 0),
      Env("badscore", 0) }

Sources == {"inconsistency", "pattern", "network", "deepfake",
            "billing", "clinical", "eligibility"}

\* lines 128-140 of fraudlens.py, lines 89-94 of medical_lens.py
TaskList(fl, incl_network, incl_deepfake, images) ==
    IF fl = "medical"
    THEN << "billing", "clinical", "eligibility", "inconsistency" >>
    ELSE << "inconsistency", "pattern" >>
         \o (IF incl_network THEN << "network" >> ELSE << >>)
         \o (IF incl_deepfake /\ images > 0 THEN << "deepfake" >> ELSE << >>)

InRange(q, x) == \E i \in 1..Len(q) : q[i] = x

EnvsOf(source) ==
    IF source = "inconsistency" THEN InconsistencyEnvs
    ELSE IF source = "pattern" THEN PatternEnvs
    ELSE IF source = "network" THEN NetworkEnvs
    ELSE IF source = "deepfake" THEN DeepfakeEnvs
    ELSE MedicalEnvs

\* the behaviours a source can show when it is launched; a source that is not
\* launched has none
LaunchedEnvs(source, fl, incl_network, incl_deepfake, images) ==
    IF InRange(TaskList(fl, incl_network, incl_deepfake, images), source)
    THEN EnvsOf(source)
    ELSE { NotLaunched }

Init ==
    /\ flow \in {"insurance", "medical"}
    /\ claim_data \in ClaimPayloads
    /\ include_network \in BOOLEAN
    /\ include_deepfake \in BOOLEAN
    /\ image_paths \in {0, 1}
    /\ flow = "medical" => include_network /\ include_deepfake /\ image_paths = 0
    /\ rigid \in BOOLEAN
    /\ \E ei \in LaunchedEnvs("inconsistency", flow, include_network, include_deepfake, image_paths),
          ep \in LaunchedEnvs("pattern", flow, include_network, include_deepfake, image_paths),
          en \in LaunchedEnvs("network", flow, include_network, include_deepfake, image_paths),
          ed \in LaunchedEnvs("deepfake", flow, include_network, include_deepfake, image_paths),
          eb \in LaunchedEnvs("billing", flow, include_network, include_deepfake, image_paths),
          ec \in LaunchedEnvs("clinical", flow, include_network, include_deepfake, image_paths),
          ee \in LaunchedEnvs("eligibility", flow, include_network, include_deepfake, image_paths) :
          env = [inconsistency |-> ei, pattern |-> ep, network |-> en, deepfake |-> ed,
                 billing |-> eb, clinical |-> ec, eligibility |-> ee]
    /\ weights = NoOverride
    /\ id_consistency_results = None
    /\ pc = "start"
    /\ tasks = << >>
    /\ finished = {}
    /\ results = << >>
    /\ out_of_order = FALSE
    /\ inconsistency_result = None
    /\ pattern_result = None
    /\ network_result = None
    /\ deepfake_result = None
    /\ billing_result = None
    /\ clinical_result = None
    /\ eligibility_result = None
    /\ score_result = None
    /\ phase4 = [reasoning |-> "idle", narrative |-> "idle"]
    /\ analysis_result = None
    /\ score_again = None
    /\ OfflineIdle

\* the substituted default carries a baseline score instead of 0
DefaultDictBaseline == Dict("", Pts(10))

DefaultDict == Dict("", 0)
EmptyDict == [tag |-> "empty"]

\* the wait returns as soon as one awaitable has finished (FIRST_COMPLETED)
GatherReadyFirstCompleted(tl, fin) == \E i \in 1..Len(tl) : i \in fin

\* asyncio.gather(*tasks, return_exceptions=True) resumes the orchestrator when
\* every awaitable has finished
GatherReady(tl, fin) == \A i \in 1..Len(tl) : i \in fin

\* gather returns the outcomes in the order of the awaitables passed in
GatherResults(res) == res

OrDefault(r, default) == IF ~IsException(r) THEN r ELSE default

\* lines 153-168 of fraudlens.py: the optional results are read at a running index
\* the network result is read from the last slot of the gathered list
NetworkSlotLast(res, incl_network) ==
    IF incl_network
    THEN IF 3 <= Len(res) /\ ~IsException(res[Len(res)]) THEN res[Len(res)] ELSE None
    ELSE None

NetworkSlot(res, incl_network) ==
    IF incl_network
    THEN IF 3 <= Len(res) /\ ~IsException(res[3]) THEN res[3] ELSE None
    ELSE None

\* the running index is not advanced past the network slot
DeepfakeSlotNoAdvance(res, incl_network, incl_deepfake, images) ==
    IF incl_deepfake /\ images > 0
    THEN IF 3 <= Len(res) /\ ~IsException(res[3]) THEN res[3] ELSE None
    ELSE None

DeepfakeSlot(res, incl_network, incl_deepfake, images) ==
    LET idx == IF incl_network THEN 4 ELSE 3
    IN  IF incl_deepfake /\ images > 0
        THEN IF idx <= Len(res) /\ ~IsException(res[idx]) THEN res[idx] ELSE None
        ELSE None

\* lines 117-121 of medical_lens.py; evaluated outside any try block
MedicalRiskRaises(b, c, e) ==
    \/ ~IsDict(b) \/ ~IsDict(c) \/ ~IsDict(e)
    \/ ~b.numeric \/ ~c.numeric \/ ~e.numeric

MedicalRisk(b, c, e) == (b.score * 40 + c.score * 35 + e.score * 25) \div 100

\* outcomes are collected in the order the tasks finish (as_completed)
StoreResultArrival(res, i, v) ==
    LET j == CHOOSE j \in 1..Len(res) :
                 res[j] = Pending /\ \A k \in 1..(j - 1) : res[k] # Pending
    IN  [res EXCEPT ![j] = v]

\* gather keeps each outcome at the position of its awaitable
StoreResult(res, i, v) == [res EXCEPT ![i] = v]

\* task i finishes while a task launched before it is still running
Overtakes(fin, i) == \E j \in 1..(i - 1) : j \notin fin

Launch ==
    /\ pc = "start"
    /\ tasks' = TaskList(flow, include_network, include_deepfake, image_paths)
    /\ results' = [i \in 1..Len(tasks') |-> Pending]
    /\ pc' = "gather1"
    /\ UNCHANGED << offline, score_again, inputs, finished, out_of_order, unpacked, score_result, phase4, analysis_result >>

SourceReturns(i) ==
    /\ pc = "gather1"
    /\ i \notin finished
    /\ env[tasks[i]].mode \notin {"raise", "hang"}
    /\ finished' = finished \cup {i}
    /\ results' = StoreResult(results, i, AgentAnalyze(tasks[i], env[tasks[i]]))
    /\ out_of_order' = (out_of_order \/ Overtakes(finished, i))
    /\ UNCHANGED << offline, score_again, inputs, pc, tasks, unpacked, score_result, phase4, analysis_result >>

SourceRaises(i) ==
    /\ pc = "gather1"
    /\ i \notin finished
    /\ env[tasks[i]].mode = "raise"
    /\ finished' = finished \cup {i}
    /\ results' = StoreResult(results, i, Raised)
    /\ out_of_order' = (out_of_order \/ Overtakes(finished, i))
    /\ UNCHANGED << offline, score_again, inputs, pc, tasks, unpacked, score_result, phase4, analysis_result >>

GatherReturnsInsurance ==
    /\ pc = "gather1"
    /\ flow = "insurance"
    /\ GatherReady(tasks, finished)
    /\ LET res == GatherResults(results)
       IN  /\ inconsistency_result' = OrDefault(res[1], DefaultDict)
           /\ pattern_result' = OrDefault(res[2], DefaultDict)
           /\ network_result' = NetworkSlot(res, include_network)
           /\ deepfake_result' =
                  DeepfakeSlot(res, include_network, include_deepfake, image_paths)
    /\ pc' = "scoring"
    /\ UNCHANGED << offline, score_again, inputs, tasks, finished, results, out_of_order, billing_result, clinical_result,
                    eligibility_result, score_result, phase4, analysis_result >>

GatherReturnsMedical ==
    /\ pc = "gather1"
    /\ flow = "medical"
    /\ GatherReady(tasks, finished)
    /\ LET res == GatherResults(results)
           b == OrDefault(res[1], DefaultDict)
           c == OrDefault(res[2], DefaultDict)
           e == OrDefault(res[3], DefaultDict)
       IN  /\ billing_result' = b
           /\ clinical_result' = c
           /\ eligibility_result' = e
           /\ inconsistency_result' = OrDefault(res[4], DefaultDict)
           /\ IF MedicalRiskRaises(b, c, e)
              THEN pc' = "raised" /\ pattern_result' = pattern_result
              ELSE pc' = "scoring" /\ pattern_result' = Dict("", MedicalRisk(b, c, e))
    /\ UNCHANGED << offline, score_again, inputs, tasks, finished, results, out_of_order, network_result, deepfake_result,
                    score_result, phase4, analysis_result >>

Score ==
    /\ pc = "scoring"
    /\ score_result' = CalculateScore(claim_data, inconsistency_result, pattern_result,
                                      network_result, deepfake_result,
                                      id_consistency_results, weights, rigid)
    /\ pc' = "scored"
    /\ UNCHANGED << offline, score_again, inputs, tasks, finished, results, out_of_order, unpacked, phase4, analysis_result >>

LaunchPhase4 ==
    /\ pc = "scored"
    /\ phase4' = [reasoning |-> "running", narrative |-> "running"]
    /\ pc' = "gather2"
    /\ UNCHANGED << offline, score_again, inputs, tasks, finished, results, out_of_order, unpacked, score_result,
                    analysis_result >>

Phase4Completes(t, outcome) ==
    /\ pc = "gather2"
    /\ phase4[t] = "running"
    /\ phase4' = [phase4 EXCEPT ![t] = outcome]
    /\ UNCHANGED << offline, score_again, inputs, pc, tasks, finished, results, out_of_order, unpacked, score_result,
                    analysis_result >>

Get(r, key, default) == IF key \in DOMAIN r THEN r[key] ELSE default

OrEmpty(r) == IF Truthy(r) THEN r ELSE EmptyDict

\* score_result["reasoning"] = reasoning: the one write to the score result
\* after calculate_score
SetReasoningAlone(score, reasoning) == [reasoning |-> reasoning]

SetReasoning(score, reasoning) ==
    [k \in DOMAIN score \cup {"reasoning"} |->
        IF k = "reasoning" THEN reasoning ELSE score[k]]

\* lines 187-212 of fraudlens.py, lines 141-161 of medical_lens.py
Finish ==
    /\ pc = "gather2"
    /\ phase4.reasoning # "running"
    /\ phase4.narrative # "running"
    /\ LET reasoning == IF phase4.reasoning = "exc" THEN "Claim scored" ELSE "LLM reasoning"
           narrative == IF phase4.narrative = "exc" THEN "" ELSE "LLM narrative"
           final == SetReasoning(score_result, reasoning)
       IN  /\ score_result' = final
           /\ analysis_result' =
                  [tag |-> "result",
                   fraud_score |-> Get(final, "overall_score", 0),
                   risk_level |-> Get(final, "risk_level", "unknown"),
                   recommendation |-> Get(final, "recommendation", ""),
                   narrative |-> narrative,
                   inconsistencies |-> inconsistency_result,
                   pattern_matches |-> pattern_result,
                   network_analysis |-> OrEmpty(network_result),
                   deepfake_analysis |-> OrEmpty(deepfake_result),
                   scoring_details |-> final]
    /\ pc' = "returned"
    /\ UNCHANGED << offline, score_again, inputs, tasks, finished, results, out_of_order, unpacked, phase4 >>

Next ==
    \/ Launch
    \/ \E i \in 1..Len(tasks) : SourceReturns(i)
    \/ \E i \in 1..Len(tasks) : SourceRaises(i)
    \/ GatherReturnsInsurance
    \/ GatherReturnsMedical
    \/ Score
    \/ LaunchPhase4
    \/ \E t \in {"reasoning", "narrative"}, o \in {"ok", "exc"} : Phase4Completes(t, o)
    \/ Finish

Spec == Init /\ [][Next]_vars

\* the event loop runs every callback that is ready: a step that stays enabled
\* is eventually taken
FairSpec == Init /\ [][Next]_vars /\ WF_vars(Next)

TypeOK == pc \in {"start", "gather1", "scoring", "scored", "gather2", "returned", "raised"}

(***************************************************************************)
(* calculate_score called directly (id_verify.py, the tests, eval): every  *)
(* argument is an input, the identity-document flow and the weight         *)
(* override included.                                                      *)
(***************************************************************************)
ScoreGrid == { 0, Pts(10), Pts(20), Pts(80), Pts(100) }

DirectPayloads ==
    { [amount |-> a, text_high_amount |-> th, soft_tissue_injury |-> si, text_soft_tissue |-> ts] :
        a \in {0, 200000}, th \in BOOLEAN, si \in {FALSE}, ts \in BOOLEAN }
    \cup { [amount |-> 5000, text_high_amount |-> FALSE, soft_tissue_injury |-> TRUE,
            text_soft_tissue |-> TRUE] }

OverrideMaps ==
    { [inconsistency |-> 305],
      [claim_characteristics |-> 145],
      [inconsistency |-> 0, pattern_match |-> 0, claim_characteristics |-> 0],
      [inconsistency |-> 755, claim_characteristics |-> 0],
      [pattern_match |-> 1000, network_risk |-> 1000, unknown_key |-> 500] }

DirectWeights == { NoOverride } \cup { Override(m) : m \in OverrideMaps }

InitScore ==
    /\ flow = "direct"
    /\ claim_data \in DirectPayloads
    /\ include_network = FALSE
    /\ include_deepfake = FALSE
    /\ image_paths = 0
    /\ rigid \in BOOLEAN
    /\ env = [x \in Sources |-> NotLaunched]
    /\ weights \in DirectWeights
    /\ id_consistency_results \in { None, Dict("", 0), Dict("", Pts(80)) }
    /\ pc = "direct"
    /\ tasks = << >>
    /\ finished = {}
    /\ results = << >>
    /\ out_of_order = FALSE
    /\ inconsistency_result \in { Dict("success", x) : x \in ScoreGrid }
    /\ pattern_result \in { Dict("success", x) : x \in {0, Pts(20), Pts(100)} } \cup { NotAMapping }
    /\ network_result \in { None, Dict("success", Pts(10)), Dict("error", 0) }
    /\ deepfake_result \in { None, Dict("success", Pts(80)), Dict("skipped", 0),
                             DictAI("success", Pts(10), Pts(100)) }
    /\ billing_result = None
    /\ clinical_result = None
    /\ eligibility_result = None
    /\ score_result = None
    /\ phase4 = [reasoning |-> "idle", narrative |-> "idle"]
    /\ analysis_result = None
    /\ score_again = None
    /\ OfflineIdle

DirectScore ==
    /\ pc = "direct"
    /\ score_result' = CalculateScore(claim_data, inconsistency_result, pattern_result,
                                      network_result, deepfake_result,
                                      id_consistency_results, weights, rigid)
    /\ pc' = "direct_done"
    /\ UNCHANGED << offline, score_again, inputs, tasks, finished, results, out_of_order, unpacked, phase4,
                    analysis_result >>

\* the process environment changes between two calls: RIGID_SCORING is set so
\* that _is_rigid() answers the other way
Setenv ==
    /\ pc = "direct_done"
    /\ rigid' = ~rigid
    /\ pc' = "direct_env"
    /\ UNCHANGED << offline, score_again, flow, claim_data, include_network, include_deepfake,
                    image_paths, env, weights, id_consistency_results, tasks, finished, results,
                    out_of_order, unpacked, score_result, phase4, analysis_result >>

\* calculate_score is called a second time with the arguments of the first call
DirectScoreAgain ==
    /\ pc \in {"direct_done", "direct_env"}
    /\ score_again' =
           [env_changed |-> (pc = "direct_env"),
            result |-> CalculateScore(claim_data, inconsistency_result, pattern_result,
                                      network_result, deepfake_result,
                                      id_consistency_results, weights, rigid)]
    /\ pc' = "direct_again"
    /\ UNCHANGED << offline, inputs, tasks, finished, results, out_of_order, unpacked,
                    score_result, phase4, analysis_result >>

\* the source results whose score a caller can raise: mappings with a numeric score
RaisableSources ==
    { f \in {"inconsistency", "pattern", "network", "deepfake", "id_consistency"} :
        LET r == IF f = "inconsistency" THEN inconsistency_result
                 ELSE IF f = "pattern" THEN pattern_result
                 ELSE IF f = "network" THEN network_result
                 ELSE IF f = "deepfake" THEN deepfake_result
                 ELSE id_consistency_results
        IN  IsDict(r) /\ r.numeric }

\* calculate_score is called a second time, the environment left as it is, with
\* the arguments of the first call except that the score of one source result
\* is higher
DirectScoreRaised ==
    /\ pc = "direct_done"
    /\ \E f \in RaisableSources, x \in ScoreGrid :
          LET inc == IF f = "inconsistency" /\ x > inconsistency_result.score
                     THEN [inconsistency_result EXCEPT !.score = x]
                     ELSE inconsistency_result
              pat == IF f = "pattern" /\ x > pattern_result.score
                     THEN [pattern_result EXCEPT !.score = x]
                     ELSE pattern_result
              net == IF f = "network" /\ x > network_result.score
                     THEN [network_result EXCEPT !.score = x]
                     ELSE network_result
              df  == IF f = "deepfake" /\ x > deepfake_result.score
                     THEN [deepfake_result EXCEPT !.score = x]
                     ELSE deepfake_result
              idc == IF f = "id_consistency" /\ x > id_consistency_results.score
                     THEN [id_consistency_results EXCEPT !.score = x]
                     ELSE id_consistency_results
          IN  /\ << inc, pat, net, df, idc >> #
                    << inconsistency_result, pattern_result, network_result,
                       deepfake_result, id_consistency_results >>
              /\ score_again' =
                     [env_changed |-> FALSE,
                      raised |-> f,
                      to |-> x,
                      result |-> CalculateScore(claim_data, inc, pat, net, df, idc,
                                                weights, rigid)]
    /\ pc' = "direct_raised"
    /\ UNCHANGED << offline, inputs, tasks, finished, results, out_of_order, unpacked,
                    score_result, phase4, analysis_result >>

NextScore == DirectScore \/ Setenv \/ DirectScoreAgain \/ DirectScoreRaised

ScoreSpec == InitScore /\ [][NextScore]_vars

(***************************************************************************)
(* Properties                                                              *)
(***************************************************************************)
Levels == {"low", "medium", "high", "critical"}

Launched(s) == InRange(TaskList(flow, include_network, include_deepfake, image_paths), s)

\* the value the orchestrator holds for source s once gather has returned
Handed(s) ==
    IF s = "inconsistency" THEN inconsistency_result
    ELSE IF s = "pattern" THEN pattern_result
    ELSE IF s = "network" THEN network_result
    ELSE IF s = "deepfake" THEN deepfake_result
    ELSE IF s = "billing" THEN billing_result
    ELSE IF s = "clinical" THEN clinical_result
    ELSE eligibility_result

AfterGather == pc \in {"scoring", "scored", "gather2", "returned"}

MalformedSource == \E s \in Sources : Launched(s) /\ env[s].mode \in {"badscore", "notmap"}

\* C1: whatever subset of the first-phase sources raises, the analysis does not
\* raise (an exception reaches the caller only when a medical source returned
\* malformed output), and the result of every source that did not raise is
\* the value handed to scoring, unchanged.
C1_FailuresIsolated ==
    /\ pc = "raised" => MalformedSource
    /\ AfterGather =>
          \A s \in Sources :
              Launched(s) /\ env[s].mode # "raise" => Handed(s) = AgentAnalyze(s, env[s])

C1_Witness ==
    /\ pc = "returned"
    /\ flow = "insurance"
    /\ env.inconsistency.mode = "raise"
    /\ env.network.mode = "raise"
    /\ env.pattern = Env("ok", Pts(20))
    /\ env.deepfake = Env("ok", Pts(90))
    /\ analysis_result.pattern_matches = Dict("success", Pts(20))
    /\ analysis_result.deepfake_analysis = Dict("success", Pts(90))

C3_EventuallyCompletes == <>(pc \in {"returned", "raised"})

\* C4: calculate_score starts only after every launched first-phase task has
\* finished, and the reasoning and narrative tasks start only after
\* calculate_score has returned.
C4_TwoStageBarrier ==
    /\ pc \in {"scoring", "scored", "gather2", "returned"} =>
          /\ tasks = TaskList(flow, include_network, include_deepfake, image_paths)
          /\ \A i \in 1..Len(tasks) : i \in finished /\ results[i] # Pending
    /\ score_result # None => pc \in {"scored", "gather2", "returned"}
    /\ (phase4.reasoning # "idle" \/ phase4.narrative # "idle") =>
          /\ pc \in {"gather2", "returned"}
          /\ score_result # None

C4_Witness ==
    /\ pc = "gather2"
    /\ phase4.reasoning = "running"
    /\ phase4.narrative = "exc"
    /\ Len(tasks) = 4
    /\ out_of_order
    /\ score_result.status = "success"

\* what the orchestrator should hold for source s, read off the source's own
\* outcome and not off a position in the gathered list
ExpectedHanded(s) ==
    IF s \in {"network", "deepfake"}
    THEN IF Launched(s) /\ env[s].mode # "raise" THEN AgentAnalyze(s, env[s]) ELSE None
    ELSE IF env[s].mode = "raise" THEN DefaultDict ELSE AgentAnalyze(s, env[s])

ExpectedScore ==
    IF flow = "insurance"
    THEN CalculateScore(claim_data, ExpectedHanded("inconsistency"),
                        ExpectedHanded("pattern"), ExpectedHanded("network"),
                        ExpectedHanded("deepfake"), None, NoOverride, rigid)
    ELSE CalculateScore(claim_data, ExpectedHanded("inconsistency"),
                        Dict("", MedicalRisk(ExpectedHanded("billing"),
                                             ExpectedHanded("clinical"),
                                             ExpectedHanded("eligibility"))),
                        None, None, None, NoOverride, rigid)

\* C5: for fixed per-source outcomes the score result (overall_score, risk_level,
\* confidence, factor list) is the same whatever the order in which the
\* first-phase sources complete: it is the score of the outcomes taken by source.
C5_OrderIndependent ==
    pc \in {"scored", "gather2", "returned"} =>
        LET expected == ExpectedScore
        IN  \A k \in DOMAIN expected \ {"reasoning"} :
                k \in DOMAIN score_result /\ score_result[k] = expected[k]

C5_Witness ==
    /\ pc = "returned"
    /\ out_of_order
    /\ flow = "insurance"
    /\ env.inconsistency = Env("ok", Pts(80))
    /\ env.pattern = Env("ok", Pts(20))
    /\ env.network = Env("ok", Pts(60))
    /\ score_result.status = "success"
    /\ score_result.risk_factors[1].score = Pts(80)
    /\ score_result.risk_factors[3].score = Pts(60)

WeightTotal(risk_factors) ==
    SumSeq([i \in 1..Len(risk_factors) |-> risk_factors[i].weight.num])

\* C6: whenever calculate_score yields a non-empty factor list (any subset of
\* the optional factors, either base table, any weight override), the weights
\* of the returned risk factors sum to 1.0 within 1e-6.
C6_WeightsSumToOne ==
    (pc = "direct_done" /\ score_result.status = "success") =>
        LET rf == score_result.risk_factors
        IN  Len(rf) > 0 =>
                Abs(WeightTotal(rf) - rf[1].weight.den) <= rf[1].weight.den \div 1000000

FactorSources == {"inconsistency", "pattern", "network", "deepfake"}

FactorName(s) ==
    IF s = "inconsistency" THEN "Inconsistencies"
    ELSE IF s = "pattern" THEN "Fraud Pattern Match"
    ELSE IF s = "network" THEN "Network/Ring Risk"
    ELSE "Image Authenticity"

HasFactor(rf, name) == \E i \in 1..Len(rf) : rf[i].name = name
FactorOf(rf, name) == rf[CHOOSE i \in 1..Len(rf) : rf[i].name = name]

Scored == pc \in {"scored", "gather2", "returned"} /\ score_result.status = "success"

\* a source that raised into gather, or reported status error or skipped
FailedNeutral(s) ==
    \/ env[s].mode = "raise"
    \/ IsDict(Handed(s)) /\ Handed(s).status \in {"error", "skipped"}

\* any failure of a source: the above, or a backend that was unavailable, or an
\* internal error inside the agent
Failed(s) ==
    \/ FailedNeutral(s)
    \/ env[s].mode \in {"backend_down", "internal_error", "internal_error_retry_ok"}

ClaimWeight == WEIGHTS.claim_characteristics

BaseWeightOf(s) ==
    IF s = "inconsistency" THEN WEIGHTS.inconsistency
    ELSE IF s = "pattern" THEN WEIGHTS.pattern_match
    ELSE IF s = "network" THEN WEIGHTS.network_risk
    ELSE WEIGHTS.deepfake

RECURSIVE SumOver(_, _)
SumOver(S, f) ==
    IF S = {} THEN 0
    ELSE LET x == CHOOSE x \in S : TRUE IN f[x] + SumOver(S \ {x}, f)

\* C7: when a source is absent or failed (its task raised, or it reported status
\* skipped or error), overall_score is the weighted sum over the remaining
\* factors only, their base weights renormalised to sum to 1.
C7_FailedLeavesDenominator ==
    (Scored /\ flow = "insurance") =>
        LET remaining == { s \in FactorSources : Launched(s) /\ ~FailedNeutral(s) }
            c == ScoreClaimCharacteristicsLocal(claim_data)
            num == SumOver(remaining, [s \in remaining |-> Handed(s).score * BaseWeightOf(s)])
                   + c * ClaimWeight
            den == SumOver(remaining, [s \in remaining |-> BaseWeightOf(s)]) + ClaimWeight
        IN  score_result.overall_score = RoundHalfEven(10 * num, Pts(1) * den)

AllSourcesFail == \A s \in Sources : Launched(s) => FailedNeutral(s)

\* C9 as stated: if every source fails, the analysis returns with overall_score
\* 0, confidence 0.85 and risk_level low, for every payload and profile.
C9_AllFailZeroScore ==
    (pc = "returned" /\ AllSourcesFail) =>
        /\ analysis_result.fraud_score = 0
        /\ analysis_result.risk_level = "low"
        /\ analysis_result.scoring_details.confidence = ConfAllZero

\* C9 amended: if every source fails (raises, or reports error or skipped) the
\* analysis returns normally with risk_level low; overall_score is 0 and
\* confidence 0.85 when the payload's claim-characteristics score is 0, and a
\* payload with a positive claim-characteristics score gives a positive
\* overall_score with confidence 0.95.
C9_AllFailLowRisk ==
    /\ AllSourcesFail => pc # "raised"
    /\ (pc = "returned" /\ AllSourcesFail) =>
          /\ analysis_result.risk_level = "low"
          /\ ScoreClaimCharacteristicsLocal(claim_data) = 0 =>
                /\ analysis_result.fraud_score = 0
                /\ analysis_result.scoring_details.confidence = ConfAllZero
          /\ ScoreClaimCharacteristicsLocal(claim_data) > 0 =>
                /\ analysis_result.fraud_score > 0
                /\ analysis_result.scoring_details.confidence = ConfCeil

C9_Witness ==
    /\ pc = "returned"
    /\ flow = "insurance"
    /\ Len(tasks) = 4
    /\ \A s \in FactorSources : env[s].mode = "raise"
    /\ ScoreClaimCharacteristicsLocal(claim_data) = 0
    /\ analysis_result.fraud_score = 0
    /\ analysis_result.scoring_details.confidence = ConfAllZero

ScenarioA ==
    /\ Scored
    /\ flow = "insurance"
    /\ Len(score_result.risk_factors) = 3
    /\ score_result.risk_factors[1].name = "Inconsistencies"
    /\ score_result.risk_factors[1].score = Pts(80)
    /\ score_result.risk_factors[2].name = "Fraud Pattern Match"
    /\ score_result.risk_factors[2].score = Pts(20)
    /\ score_result.risk_factors[3].name = "Claim Characteristics"
    /\ score_result.risk_factors[3].score = Pts(10)

ScenarioAWeights ==
    LET rf == score_result.risk_factors
    IN  /\ rf[1].weight.num * 700 = 300 * rf[1].weight.den
        /\ rf[2].weight.num * 700 = 250 * rf[2].weight.den
        /\ rf[3].weight.num * 700 = 150 * rf[3].weight.den

\* C10 as stated: with exactly Inconsistency 80, Pattern 20 and Claim
\* characteristics 10 present, the weights renormalise to 0.3/0.7, 0.25/0.7 and
\* 0.15/0.7 and overall_score is approximately 42.5 (within half a point).
C10_ScenarioA425 ==
    ScenarioA => ScenarioAWeights /\ Abs(score_result.overall_score - 425) <= 5

\* C10 amended: in that scenario the weights renormalise to 0.3/0.7, 0.25/0.7
\* and 0.15/0.7 and overall_score is 30.5/0.7, reported as 43.6.
C10_ScenarioA436 ==
    ScenarioA => ScenarioAWeights /\ score_result.overall_score = 436

C10_Witness == ScenarioA /\ pc = "returned" /\ analysis_result.fraud_score = 436

DirectDone == pc \in {"direct_done", "direct_env", "direct_again"}

\* every effective weight lies in [0,1]
WeightsInUnitRange ==
    weights.given => \A k \in DOMAIN weights.map : weights.map[k] \in 0..1000

\* C11: for factor scores in [0,100] and effective weights in [0,1] (base table
\* or caller override) the overall_score of a successful calculate_score lies
\* in [0,100].
C11_ScoreInRange ==
    (DirectDone /\ score_result.status = "success" /\ WeightsInUnitRange
        /\ \A i \in 1..Len(score_result.risk_factors) :
               score_result.risk_factors[i].score \in 0..Pts(100))
        => score_result.overall_score \in 0..1000

PositiveScores(rf) ==
    SelectSeq([i \in 1..Len(rf) |-> rf[i].score], LAMBDA s : s > 0)

\* 100 * (1 - variance/2500) of the positive scores as the fraction n/d
AgreementOf(rf) ==
    LET active == PositiveScores(rf)
        k == Len(active)
        S == SumSeq(active)
        Q == SumSeq([i \in 1..k |-> active[i] * active[i]])
    IN  [n |-> 100 * (k * k * 10000) - (k * Q - S * S), d |-> k * k * 10000]

\* C12: on a non-empty factor list the confidence lies in [0.5, 0.95] whenever
\* some factor score is > 0, where it is 1 - variance/2500 of the positive
\* scores clamped to that range (reported to two decimals), and it is exactly
\* 0.85 when every factor score is 0.
C12_ConfidenceBounds ==
    (DirectDone /\ score_result.status = "success") =>
        LET rf == score_result.risk_factors
            c == score_result.confidence
            a == AgreementOf(rf)
        IN  /\ Len(rf) > 0
            /\ Len(PositiveScores(rf)) = 0 => c = 85
            /\ Len(PositiveScores(rf)) > 0 =>
                  /\ c \in 50..95
                  /\ a.n <= 50 * a.d => c = 50
                  /\ a.n >= 95 * a.d => c = 95
                  /\ (50 * a.d < a.n /\ a.n < 95 * a.d) => 2 * Abs(c * a.d - a.n) <= a.d

C12_Witness ==
    /\ pc = "direct_done"
    /\ score_result.status = "success"
    /\ score_result.confidence \in 51..94
    /\ \E i \in 1..Len(score_result.risk_factors) : score_result.risk_factors[i].score = 0
    /\ Len(PositiveScores(score_result.risk_factors)) >= 2

(***************************************************************************)
(* The threshold profile: _is_rigid, _get_risk_level and                   *)
(* _get_recommendation called on their own, as the unit tests call them.   *)
(***************************************************************************)
\* values of the RIGID_SCORING environment variable; "unset" is its absence
EnvValues == {"unset", "true", "TRUE", "1", " yes ", "false", "0", ""}

\* str.strip().lower() on the values above
StripLower(v) == IF v = "TRUE" THEN "true" ELSE IF v = " yes " THEN "yes" ELSE v

\* _is_rigid: os.environ.get("RIGID_SCORING", "true").strip().lower() in ("1", "true", "yes")
IsRigid(v) == StripLower(IF v = "unset" THEN "true" ELSE v) \in {"1", "true", "yes"}

\* scores 0, 0.5, 1, ..., 100
LevelGrid == { 10 * i : i \in 0..200 }

OrchestratorIdle ==
    /\ flow = "none"
    /\ claim_data = None
    /\ include_network = FALSE
    /\ include_deepfake = FALSE
    /\ image_paths = 0
    /\ env = [x \in Sources |-> NotLaunched]
    /\ weights = NoOverride
    /\ id_consistency_results = None
    /\ tasks = << >>
    /\ finished = {}
    /\ results = << >>
    /\ out_of_order = FALSE
    /\ inconsistency_result = None
    /\ pattern_result = None
    /\ network_result = None
    /\ deepfake_result = None
    /\ billing_result = None
    /\ clinical_result = None
    /\ eligibility_result = None
    /\ score_result = None
    /\ phase4 = [reasoning |-> "idle", narrative |-> "idle"]
    /\ analysis_result = None
    /\ score_again = None

orchestrator == << inputs, tasks, finished, results, out_of_order, unpacked, score_result,
                   phase4, analysis_result, score_again >>

InitProfile ==
    /\ OrchestratorIdle
    /\ ServiceIdle
    /\ MetricsIdle
    /\ EvalIdle
    /\ RIGID_SCORING \in EnvValues
    /\ rigid = IsRigid(RIGID_SCORING)
    /\ lv_is_id_flow \in BOOLEAN
    /\ lv_score \in LevelGrid
    /\ lv_risk_level = ""
    /\ lv_recommendation = ""
    /\ pc = "profile"

\* _get_risk_level(score, is_id_flow) followed by _get_recommendation(risk_level)
GetLevel ==
    /\ pc = "profile"
    /\ lv_risk_level' = GetRiskLevel(lv_score, 1, lv_is_id_flow, IsRigid(RIGID_SCORING))
    /\ lv_recommendation' = GetRecommendation(lv_risk_level', IsRigid(RIGID_SCORING))
    /\ pc' = "profile_done"
    /\ UNCHANGED << orchestrator, servicevars, RIGID_SCORING, lv_is_id_flow, lv_score, metricvars, evalvars >>

\* the same two calls on a higher score, the environment left as it is
RaiseScore ==
    /\ pc \in {"profile_done", "profile_raised"}
    /\ \E s \in LevelGrid :
          /\ s > lv_score
          /\ lv_score' = s
    /\ lv_risk_level' = GetRiskLevel(lv_score', 1, lv_is_id_flow, IsRigid(RIGID_SCORING))
    /\ lv_recommendation' = GetRecommendation(lv_risk_level', IsRigid(RIGID_SCORING))
    /\ pc' = "profile_raised"
    /\ UNCHANGED << orchestrator, servicevars, RIGID_SCORING, lv_is_id_flow, metricvars, evalvars >>

\* the same two calls on the same score under a stricter profile: the setting
\* changed from non-rigid to rigid, or the rigid general flow changed to the
\* rigid identity-document flow
StricterProfile ==
    /\ pc \in {"profile_done", "profile_raised"}
    /\ \/ /\ ~IsRigid(RIGID_SCORING)
          /\ RIGID_SCORING' \in { v \in EnvValues : IsRigid(v) }
          /\ lv_is_id_flow' = FALSE
       \/ /\ IsRigid(RIGID_SCORING)
          /\ ~lv_is_id_flow
          /\ lv_is_id_flow' = TRUE
          /\ UNCHANGED RIGID_SCORING
    /\ rigid' = IsRigid(RIGID_SCORING')
    /\ lv_risk_level' = GetRiskLevel(lv_score, 1, lv_is_id_flow', IsRigid(RIGID_SCORING'))
    /\ lv_recommendation' = GetRecommendation(lv_risk_level', IsRigid(RIGID_SCORING'))
    /\ pc' = "profile_stricter"
    /\ UNCHANGED << flow, claim_data, include_network, include_deepfake, image_paths, env,
                    weights, id_consistency_results, tasks, finished, results, out_of_order,
                    unpacked, score_result, phase4, analysis_result, score_again,
                    servicevars, lv_score, metricvars, evalvars >>

NextProfile == GetLevel \/ RaiseScore \/ StricterProfile

ProfileSpec == InitProfile /\ [][NextProfile]_vars

LevelRank(level) ==
    IF level = "low" THEN 1
    ELSE IF level = "medium" THEN 2
    ELSE IF level = "high" THEN 3
    ELSE IF level = "critical" THEN 4
    ELSE 0

\* the three cutpoints of the active profile, lowest first
ProfileCutpoints ==
    IF RIGID_SCORING \in {"false", "0", ""} THEN << 25, 50, 75 >>
    ELSE IF lv_is_id_flow THEN << 12, 35, 62 >>
    ELSE << 18, 42, 68 >>

\* the level is the highest one whose cutpoint the score has reached
LevelByCutpoints ==
    LET c == ProfileCutpoints
    IN  /\ lv_risk_level = "critical" <=> lv_score >= Pts(c[3])
        /\ lv_risk_level = "high" <=> (lv_score >= Pts(c[2]) /\ lv_score < Pts(c[3]))
        /\ lv_risk_level = "medium" <=> (lv_score >= Pts(c[1]) /\ lv_score < Pts(c[2]))
        /\ lv_risk_level = "low" <=> lv_score < Pts(c[1])

\* C13: under a fixed profile (default, rigid general, rigid identity-document)
\* a higher score never gets a lower level in low < medium < high < critical,
\* and the level is the highest one whose cutpoint the score has reached.
C13_LevelMonotone ==
    [][ (pc \in {"profile_done", "profile_raised"} /\ lv_score' >= lv_score) =>
            /\ LevelRank(lv_risk_level') >= LevelRank(lv_risk_level)
            /\ LevelByCutpoints
            /\ LevelByCutpoints' ]_vars

C13_Witness ==
    /\ pc = "profile_raised"
    /\ RIGID_SCORING = "true"
    /\ lv_is_id_flow
    /\ lv_score = Pts(62)
    /\ lv_risk_level = "critical"

Keyword(rec) ==
    IF rec = "DENY - Refer to SIU immediately" THEN "DENY"
    ELSE IF rec = "INVESTIGATE - Assign to fraud analyst" THEN "INVESTIGATE"
    ELSE IF rec = "APPROVE - Proceed with standard processing" THEN "APPROVE"
    ELSE "REVIEW"

\* C15: with RIGID_SCORING not set in the environment, _get_recommendation gives
\* DENY for critical, INVESTIGATE for high, REVIEW for medium and APPROVE for
\* low.
C15_RecommendationUnsetEnv ==
    (pc \in {"profile_done", "profile_raised"} /\ RIGID_SCORING = "unset") =>
        /\ lv_risk_level = "critical" => Keyword(lv_recommendation) = "DENY"
        /\ lv_risk_level = "high" => Keyword(lv_recommendation) = "INVESTIGATE"
        /\ lv_risk_level = "medium" => Keyword(lv_recommendation) = "REVIEW"
        /\ lv_risk_level = "low" => Keyword(lv_recommendation) = "APPROVE"

(***************************************************************************)
(* eval/metrics.py and eval/calibration.py called on a labelled dataset.   *)
(* Scores and thresholds are whole points; precision, recall, f1 and fpr   *)
(* are held in ten-thousandths, as round(x, 4) reports them.               *)
(***************************************************************************)
Some(x) == [tag |-> "some", v |-> x]

\* round(n/d, 4) in ten-thousandths
Round4(n, d) == RoundHalfEven(10000 * n, d)

\* the predicted label is 1 below the threshold instead of at or above it
ScoresToBinaryBelow(ys, threshold) ==
    [i \in 1..Len(ys) |-> IF ys[i] <= threshold THEN 1 ELSE 0]

\* scores_to_binary
ScoresToBinary(ys, threshold) ==
    [i \in 1..Len(ys) |-> IF ys[i] >= threshold THEN 1 ELSE 0]

CountPairs(yt, yp, t, p) == Cardinality({ i \in 1..Len(yt) : yt[i] = t /\ yp[i] = p })

\* recall is taken over the alerts (tp + fp) instead of the positives (tp + fn)
BinaryMetricsRecallOverAlerts(yt, yp) ==
    LET tp == CountPairs(yt, yp, 1, 1)
        fp == CountPairs(yt, yp, 0, 1)
        fn == CountPairs(yt, yp, 1, 0)
        tn == CountPairs(yt, yp, 0, 0)
    IN  [precision |-> IF tp + fp > 0 THEN Round4(tp, tp + fp) ELSE 0,
         recall |-> IF tp + fp > 0 THEN Round4(tp, tp + fp) ELSE 0,
         f1 |-> IF tp > 0 THEN Round4(2 * tp, 2 * tp + fp + fn) ELSE 0,
         fpr |-> IF fp + tn > 0 THEN Round4(fp, fp + tn) ELSE 0,
         tp |-> tp, fp |-> fp, fn |-> fn, tn |-> tn,
         support_positive |-> SumSeq(yt),
         support_negative |-> Len(yt) - SumSeq(yt)]

\* binary_metrics; f1 = 2PR/(P+R) is 2tp/(2tp+fp+fn) when P+R > 0, that is tp > 0
BinaryMetrics(yt, yp) ==
    LET tp == CountPairs(yt, yp, 1, 1)
        fp == CountPairs(yt, yp, 0, 1)
        fn == CountPairs(yt, yp, 1, 0)
        tn == CountPairs(yt, yp, 0, 0)
    IN  [precision |-> IF tp + fp > 0 THEN Round4(tp, tp + fp) ELSE 0,
         recall |-> IF tp + fn > 0 THEN Round4(tp, tp + fn) ELSE 0,
         f1 |-> IF tp > 0 THEN Round4(2 * tp, 2 * tp + fp + fn) ELSE 0,
         fpr |-> IF fp + tn > 0 THEN Round4(fp, fp + tn) ELSE 0,
         tp |-> tp, fp |-> fp, fn |-> fn, tn |-> tn,
         support_positive |-> SumSeq(yt),
         support_negative |-> Len(yt) - SumSeq(yt)]

Merge(a, b) == [k \in DOMAIN a \cup DOMAIN b |-> IF k \in DOMAIN b THEN b[k] ELSE a[k]]

\* metrics_at_threshold
MetricsAtThreshold(yt, ys, threshold) ==
    Merge(BinaryMetrics(yt, ScoresToBinary(ys, threshold)), [threshold |-> threshold])

\* threshold_sweep
ThresholdSweep(yt, ys, thresholds) ==
    [i \in 1..Len(thresholds) |-> MetricsAtThreshold(yt, ys, thresholds[i])]

\* value_at_threshold
ValueAtThreshold(yt, ys, threshold, savings_per_tp, cost_per_review) ==
    LET yp == ScoresToBinary(ys, threshold)
        tp == CountPairs(yt, yp, 1, 1)
        fp == CountPairs(yt, yp, 0, 1)
        reviews == tp + fp
    IN  [threshold |-> threshold,
         value |-> tp * savings_per_tp - reviews * cost_per_review,
         tp |-> tp,
         reviews |-> reviews,
         savings |-> tp * savings_per_tp,
         cost |-> reviews * cost_per_review]

\* list(range(20, 85, 5))
DefaultThresholds == [i \in 1..13 |-> 15 + 5 * i]

\* one pass of the for loop of optimize_threshold over thresholds[i..]
RECURSIVE OptimizeLoop(_, _, _, _, _, _)
OptimizeLoop(yt, ys, a, thresholds, i, acc) ==
    IF i > Len(thresholds) THEN acc
    ELSE LET t == thresholds[i]
             m == MetricsAtThreshold(yt, ys, t)
             v == ValueAtThreshold(yt, ys, t, a.savings_per_tp, a.cost_per_review)
         IN  IF a.max_fpr.tag = "some" /\ m.fpr > a.max_fpr.v
             THEN OptimizeLoop(yt, ys, a, thresholds, i + 1, acc)
             ELSE IF a.max_workload.tag = "some" /\ v.reviews > a.max_workload.v
             THEN OptimizeLoop(yt, ys, a, thresholds, i + 1, acc)
             ELSE OptimizeLoop(yt, ys, a, thresholds, i + 1,
                      [value_sweep |-> Append(acc.value_sweep, Merge(m, v)),
                       best_value |-> IF acc.best_value.tag = "none" \/ v.value > acc.best_value.v
                                      THEN Some(v.value) ELSE acc.best_value,
                       best_threshold |-> IF acc.best_value.tag = "none" \/ v.value > acc.best_value.v
                                          THEN Some(t) ELSE acc.best_threshold])

\* optimize_threshold; a holds savings_per_tp, cost_per_review, max_fpr,
\* max_workload and thresholds, the optional ones as None or Some(x)
OptimizeThreshold(yt, ys, a) ==
    LET thresholds == IF a.thresholds.tag = "none" THEN DefaultThresholds ELSE a.thresholds.v
    IN  OptimizeLoop(yt, ys, a, thresholds, 1,
                     [value_sweep |-> << >>, best_value |-> None, best_threshold |-> None])

Classes(yt) == { yt[i] : i \in 1..Len(yt) }

\* fit_platt.  LogisticRegression.fit raises ValueError on data with fewer than
\* two classes; the fitted coefficients A and B are not modelled.
FitPlatt(yt, ys, has_sklearn) ==
    IF ~has_sklearn
    THEN { [tag |-> "dict", method |-> "platt", error |-> "scikit-learn/numpy required"] }
    ELSE IF Cardinality(Classes(yt)) < 2 THEN { Raised }
    ELSE { [tag |-> "dict", method |-> "platt", fitted |-> TRUE] }

\* the x of the breakpoints kept from np.linspace(0, 1, 101), in hundredths
BoundaryGrid == << 0, 50, 100 >>

\* probabilities in hundredths
Probabilities == {0, 50, 100}

\* fit_isotonic.  IsotonicRegression.fit raises ValueError on empty data only; on
\* data of one class c the fitted function is the constant c, and otherwise it
\* is some non-decreasing function with values within the range of the labels.
FitIsotonic(yt, ys, has_sklearn) ==
    IF ~has_sklearn
    THEN { [tag |-> "dict", method |-> "isotonic", error |-> "scikit-learn/numpy required"] }
    ELSE IF Len(yt) = 0 THEN { Raised }
    ELSE IF Cardinality(Classes(yt)) = 1
    THEN { [tag |-> "dict", method |-> "isotonic",
            boundaries |-> [i \in 1..Len(BoundaryGrid) |-> << BoundaryGrid[i], 100 * yt[1] >>]] }
    ELSE { [tag |-> "dict", method |-> "isotonic",
            boundaries |-> [i \in 1..Len(BoundaryGrid) |-> << BoundaryGrid[i], f[i] >>]] :
               f \in { g \in [1..Len(BoundaryGrid) -> Probabilities] :
                          \A i \in 1..(Len(BoundaryGrid) - 1) : g[i] <= g[i + 1] } }

\* fit_calibrator
FitCalibrator(yt, ys, method, has_sklearn) ==
    IF method = "isotonic" THEN FitIsotonic(yt, ys, has_sklearn)
    ELSE FitPlatt(yt, ys, has_sklearn)

MaxRows == 3

ScoreValues == {10, 40, 70}

Datasets ==
    UNION { { [labels |-> l, scores |-> sc] : l \in [1..n -> {0, 1}], sc \in [1..n -> ScoreValues] } :
              n \in 0..MaxRows }

ThresholdLists == { DefaultThresholds, << 50 >>, << 80, 20, 50 >>, << 5, 40, 70, 100 >> }

OptimizeArgs ==
    { [savings_per_tp |-> sv, cost_per_review |-> 50, max_fpr |-> mf, max_workload |-> mw,
       thresholds |-> th] :
        sv \in {1000, 10},
        mf \in { None, Some(0), Some(3333), Some(5000) },
        mw \in { None, Some(0), Some(1) },
        th \in { None, Some(<< 50 >>), Some(<< 80, 20, 50 >>) } }

InitMetrics ==
    /\ OrchestratorIdle
    /\ ServiceIdle
    /\ ProfileIdle
    /\ rigid = IsRigid(RIGID_SCORING)
    /\ EvalIdle
    /\ \E ds \in Datasets : y_true = ds.labels /\ y_score = ds.scores
    /\ sweep = << >>
    /\ call_args = None
    /\ opt_result = None
    /\ calibrator = None
    /\ pc = "metrics"

ThresholdSweepCall ==
    /\ pc = "metrics"
    /\ \E thresholds \in ThresholdLists :
          /\ call_args' = [thresholds |-> thresholds]
          /\ sweep' = ThresholdSweep(y_true, y_score, thresholds)
    /\ pc' = "swept"
    /\ UNCHANGED << orchestrator, servicevars, profilevars, evalvars, y_true, y_score, opt_result, calibrator >>

OptimizeThresholdCall ==
    /\ pc = "metrics"
    /\ \E a \in OptimizeArgs :
          /\ call_args' = a
          /\ opt_result' = OptimizeThreshold(y_true, y_score, a)
    /\ pc' = "optimized"
    /\ UNCHANGED << orchestrator, servicevars, profilevars, evalvars, y_true, y_score, sweep, calibrator >>

FitCalibratorCall ==
    /\ pc = "metrics"
    /\ \E method \in {"platt", "isotonic"}, has_sklearn \in BOOLEAN :
          /\ call_args' = [method |-> method, has_sklearn |-> has_sklearn]
          /\ calibrator' \in FitCalibrator(y_true, y_score, method, has_sklearn)
    /\ pc' = "fitted"
    /\ UNCHANGED << orchestrator, servicevars, profilevars, evalvars, y_true, y_score, sweep, opt_result >>

NextMetrics == ThresholdSweepCall \/ OptimizeThresholdCall \/ FitCalibratorCall

MetricsSpec == InitMetrics /\ [][NextMetrics]_vars

\* C16: over one dataset, for thresholds t1 <= t2 the recall reported at t2 is
\* at most the recall reported at t1.
C16_RecallNonIncreasing ==
    pc = "swept" =>
        \A i, j \in 1..Len(sweep) :
            sweep[i].threshold <= sweep[j].threshold => sweep[j].recall <= sweep[i].recall

C16_Witness ==
    /\ pc = "swept"
    /\ \E i, j \in 1..Len(sweep) :
          /\ sweep[i].threshold < sweep[j].threshold
          /\ sweep[j].recall < sweep[i].recall
          /\ sweep[j].recall > 0

\* C17 as stated: over one dataset, for thresholds t1 <= t2 the precision
\* reported at t2 is at least the precision reported at t1.
C17_PrecisionNonDecreasing ==
    pc = "swept" =>
        \A i, j \in 1..Len(sweep) :
            sweep[i].threshold <= sweep[j].threshold => sweep[j].precision >= sweep[i].precision

\* C17 amended: for thresholds t1 <= t2 the counts tp and fp at t2 are at most
\* those at t1, and the precision at t2 is at least the precision at t1 whenever
\* no true positive is lost between them (tp is the same at both).
C17_PrecisionWhenNoPositiveLost ==
    pc = "swept" =>
        \A i, j \in 1..Len(sweep) :
            sweep[i].threshold <= sweep[j].threshold =>
                /\ sweep[j].tp <= sweep[i].tp
                /\ sweep[j].fp <= sweep[i].fp
                /\ sweep[j].tp = sweep[i].tp => sweep[j].precision >= sweep[i].precision

C17_Witness ==
    /\ pc = "swept"
    /\ \E i, j \in 1..Len(sweep) :
          /\ sweep[i].threshold < sweep[j].threshold
          /\ sweep[j].tp = sweep[i].tp
          /\ sweep[j].tp > 0
          /\ sweep[j].precision > sweep[i].precision

SweptThresholds ==
    IF call_args.thresholds.tag = "none" THEN DefaultThresholds ELSE call_args.thresholds.v

TruePositivesAt(t) == Cardinality({ i \in 1..Len(y_true) : y_true[i] = 1 /\ y_score[i] >= t })
FalsePositivesAt(t) == Cardinality({ i \in 1..Len(y_true) : y_true[i] = 0 /\ y_score[i] >= t })
Negatives == Cardinality({ i \in 1..Len(y_true) : y_true[i] = 0 })

\* FP/(FP+TN) <= max_fpr (max_fpr in ten-thousandths) and TP+FP <= max_workload
Feasible(t) ==
    /\ call_args.max_fpr.tag = "some" =>
           FalsePositivesAt(t) * 10000 <= call_args.max_fpr.v * Negatives
    /\ call_args.max_workload.tag = "some" =>
           TruePositivesAt(t) + FalsePositivesAt(t) <= call_args.max_workload.v

ValueOf(t) ==
    TruePositivesAt(t) * call_args.savings_per_tp
        - (TruePositivesAt(t) + FalsePositivesAt(t)) * call_args.cost_per_review

\* C18: optimize_threshold reports best_threshold None exactly when no swept
\* threshold has FPR <= max_fpr and reviews <= max_workload; otherwise
\* best_threshold is a swept threshold meeting both constraints whose value
\* TP*savings_per_tp - (TP+FP)*cost_per_review is at least that of every other
\* feasible swept threshold.
C18_BestFeasibleThreshold ==
    pc = "optimized" =>
        LET ts == SweptThresholds
            best == opt_result.best_threshold
        IN  /\ best.tag = "none" <=> \A i \in 1..Len(ts) : ~Feasible(ts[i])
            /\ best.tag = "some" =>
                  /\ \E i \in 1..Len(ts) : ts[i] = best.v
                  /\ Feasible(best.v)
                  /\ \A j \in 1..Len(ts) : Feasible(ts[j]) => ValueOf(best.v) >= ValueOf(ts[j])

\* a fit that returned a calibrator: a mapping without an error entry
IsCalibrator(c) == c.tag = "dict" /\ "error" \notin DOMAIN c

\* C20: for either method, fitting on a labelled set with fewer than 2 distinct
\* labels fails and never returns a calibrator.
C20_SingleClassFitFails ==
    (pc = "fitted" /\ Cardinality(Classes(y_true)) < 2) => ~IsCalibrator(calibrator)

(***************************************************************************)
(* eval/run_eval.py: main() on a loaded dataset.                           *)
(***************************************************************************)
\* keyword parameters of FraudLensAI.analyze and MedicalClaimLensAI.analyze
AnalyzeParameters(vertical) ==
    IF vertical = "medical" THEN {"document_path"}
    ELSE {"document_path", "image_paths", "include_network", "include_deepfake"}

\* keyword arguments run_one passes to analyze (lines 69 and 73-78)
AnalyzeKeywords(vertical) ==
    IF vertical = "medical" THEN {"score_weights"}
    ELSE {"include_network", "include_deepfake", "score_weights"}

\* run_one: None for a row without input, with a missing path or a CSV; otherwise
\* the call of analyze, where a keyword the method does not take raises
\* TypeError, which the except branch turns into None
RunOne(row) ==
    IF row.input \in {"none", "missing", "csv"} THEN None
    ELSE IF ~(AnalyzeKeywords(row.vertical) \subseteq AnalyzeParameters(row.vertical)) THEN None
    ELSE IF row.analysis = "raises" THEN None
    ELSE Some(row.score)

MaxEvalRows == 3

\* a row of the dataset: what its input refers to, its vertical, its label, and
\* what the pipeline would answer for it
EvalRows ==
    { [input |-> i, vertical |-> v, label_fraud |-> l, analysis |-> a, score |-> 70] :
        i \in {"none", "missing", "csv", "document"}, v \in {"auto", "medical"},
        l \in {0, 1}, a \in {"returns"} }
    \cup { [input |-> "document", vertical |-> v, label_fraud |-> l, analysis |-> "raises",
            score |-> 0] : v \in {"auto", "medical"}, l \in {0, 1} }

InitEval ==
    /\ OrchestratorIdle
    /\ ServiceIdle
    /\ ProfileIdle
    /\ rigid = IsRigid(RIGID_SCORING)
    /\ MetricsIdle
    /\ \E n \in 0..MaxEvalRows : rows \in [1..n -> EvalRows]
    /\ eval_results = << >>
    /\ report = None
    /\ pc = "run_all"

\* lines 133-135: an empty dataset ends the run with exit status 1
NoRows ==
    /\ pc = "run_all"
    /\ Len(rows) = 0
    /\ pc' = "exit_1"
    /\ UNCHANGED << orchestrator, servicevars, profilevars, metricvars, evalvars >>

\* one iteration of the loop of run_all
RunNextRow ==
    /\ pc = "run_all"
    /\ Len(eval_results) < Len(rows)
    /\ LET row == rows[Len(eval_results) + 1]
       IN  eval_results' = Append(eval_results, [row |-> row, score |-> RunOne(row)])
    /\ UNCHANGED << orchestrator, servicevars, profilevars, metricvars, rows, report, pc >>

ScoredRows(r) == SelectSeq(r, LAMBDA x : x.score.tag = "some")

\* lines 154-179: the scored rows are collected; without any the run ends with
\* exit status 1, otherwise the report is built (auc is left out)
BuildReport ==
    /\ pc = "run_all"
    /\ Len(rows) > 0
    /\ Len(eval_results) = Len(rows)
    /\ LET sc == ScoredRows(eval_results)
       IN  /\ y_true' = [i \in 1..Len(sc) |-> sc[i].row.label_fraud]
           /\ y_score' = [i \in 1..Len(sc) |-> sc[i].score.v]
    /\ IF Len(y_true') = 0
       THEN /\ report' = None
            /\ pc' = "exit_1"
       ELSE /\ report' = [tag |-> "report",
                          n |-> Len(y_true'),
                          operational_thresholds |-> ThresholdSweep(y_true', y_score', << 50 >>),
                          n_evaluated |-> Len(y_true'),
                          n_skipped |-> Len(rows) - Len(y_true'),
                          at_threshold |-> MetricsAtThreshold(y_true', y_score', 50)]
            /\ pc' = "reported"
    /\ UNCHANGED << orchestrator, servicevars, profilevars, rows, eval_results, sweep, call_args, opt_result,
                    calibrator >>

NextEval == NoRows \/ RunNextRow \/ BuildReport

EvalSpec == InitEval /\ [][NextEval]_vars

\* C19: on every dataset with rows the batch evaluator runs to completion and
\* produces a report; each row that could not be loaded or scored is counted in
\* n_skipped and left out of the metrics, and no number of such rows makes the
\* run fail.
C19_RunCompletesWithReport ==
    (pc \in {"exit_1", "reported"} /\ Len(rows) > 0) =>
        LET unscored == Cardinality({ i \in 1..Len(eval_results) :
                                        eval_results[i].score.tag = "none" })
        IN  /\ pc = "reported"
            /\ report.tag = "report"
            /\ report.n_skipped = unscored
            /\ report.n_evaluated = Len(rows) - unscored
            /\ report.n = report.n_evaluated

(***************************************************************************)
(* Applying an isotonic calibrator: eval/calibration.py apply_isotonic.    *)
(* Breakpoint coordinates and probabilities are in hundredths; a returned  *)
(* probability is the exact fraction n / d of a hundredth.                 *)
(***************************************************************************)
Frac(n, d) == [n |-> n, d |-> d]

FracLeq(a, b) == a.n * b.d <= b.n * a.d

FracEq(a, b) == a.n * b.d = b.n * a.d

\* max(0, min(100, score)) / 100.0, in hundredths
ClampScore(score) == Max(0, Min(100, score))

\* the first interval [x0, x1] of consecutive breakpoints that contains s, or 0
RECURSIVE FirstInterval(_, _, _)
FirstInterval(s, boundaries, i) ==
    IF i > Len(boundaries) - 1 THEN 0
    ELSE IF boundaries[i][1] <= s /\ s <= boundaries[i + 1][1] THEN i
    ELSE FirstInterval(s, boundaries, i + 1)

\* apply_isotonic(score, params): the clamped score when there are no
\* breakpoints; the linear interpolation inside the first interval that holds
\* the score; the last breakpoint's probability when no interval holds it
ApplyIsotonic(score, boundaries) ==
    LET s == ClampScore(score)
        i == FirstInterval(s, boundaries, 1)
    IN  IF Len(boundaries) = 0 THEN Frac(s, 1)
        ELSE IF i > 0
             THEN LET x0 == boundaries[i][1]
                      p0 == boundaries[i][2]
                      x1 == boundaries[i + 1][1]
                      p1 == boundaries[i + 1][2]
                  IN  IF x1 # x0
                      THEN Frac(p0 * (x1 - x0) + (s - x0) * (p1 - p0), x1 - x0)
                      ELSE Frac(p1, 1)
        ELSE Frac(boundaries[Len(boundaries)][2], 1)

\* calibrate_score on an isotonic calibrator
CalibrateScore(score, c) == ApplyIsotonic(score, c.boundaries)

MaxApplied == 2
BreakpointXs == {0, 20, 50, 80, 100}
BreakpointPs == {10, 50, 90}
AppliedScores == {-10, 0, 10, 20, 35, 50, 65, 80, 90, 100, 120}

\* breakpoint lists of one to three points, x strictly increasing within
\* [0, 1] and p non-decreasing, and the list without breakpoints
BreakpointLists ==
    { << >> }
    \cup { << <<x, p>> >> : x \in BreakpointXs, p \in BreakpointPs }
    \cup { << <<x[1], p[1]>>, <<x[2], p[2]>> >> :
             x \in { q \in BreakpointXs \X BreakpointXs : q[1] < q[2] },
             p \in { q \in BreakpointPs \X BreakpointPs : q[1] <= q[2] } }
    \cup { << <<x[1], p[1]>>, <<x[2], p[2]>>, <<x[3], p[3]>> >> :
             x \in { q \in BreakpointXs \X BreakpointXs \X BreakpointXs :
                       q[1] < q[2] /\ q[2] < q[3] },
             p \in { q \in BreakpointPs \X BreakpointPs \X BreakpointPs :
                       q[1] <= q[2] /\ q[2] <= q[3] } }

InitCalibrate ==
    /\ OrchestratorIdle
    /\ ProfileIdle
    /\ EvalIdle
    /\ y_true = << >>
    /\ y_score = << >>
    /\ sweep = << >>
    /\ call_args = None
    /\ opt_result = None
    /\ calibrator \in { [method |-> "isotonic", boundaries |-> b] : b \in BreakpointLists }
    /\ applied = << >>
    /\ nim_vision_unavailable = "undefined"
    /\ image_analysis = None
    /\ vector_store = None
    /\ collection = None
    /\ rigid = IsRigid(RIGID_SCORING)
    /\ pc = "calibrate"

\* one call calibrate_score(score, calibrator); the calls made are kept in order
CalibrateScoreCall ==
    /\ pc = "calibrate"
    /\ Len(applied) < MaxApplied
    /\ \E score \in AppliedScores :
          applied' = Append(applied, [score |-> score,
                                      probability |-> CalibrateScore(score, calibrator)])
    /\ UNCHANGED << orchestrator, profilevars, metricvars, evalvars, pc,
                    nim_vision_unavailable, image_analysis, vector_store, collection >>

NextCalibrate == CalibrateScoreCall

CalibrateSpec == InitCalibrate /\ [][NextCalibrate]_vars

FirstBreakpoint == calibrator.boundaries[1]

LastBreakpoint == calibrator.boundaries[Len(calibrator.boundaries)]

\* C21: with breakpoints of increasing x and non-decreasing p, a higher score
\* never gets a lower probability; a score below the first breakpoint gets the
\* first breakpoint's probability, a score above the last gets the last one's,
\* and a score between two neighbouring breakpoints gets the value on the
\* straight line between them.
C21_IsotonicMonotoneClamped ==
    (pc = "calibrate" /\ Len(calibrator.boundaries) > 0) =>
        /\ \A i, j \in 1..Len(applied) :
              applied[i].score <= applied[j].score =>
                  FracLeq(applied[i].probability, applied[j].probability)
        /\ \A i \in 1..Len(applied) :
              LET s == ClampScore(applied[i].score)
                  b == calibrator.boundaries
              IN  /\ s < FirstBreakpoint[1] =>
                        FracEq(applied[i].probability, Frac(FirstBreakpoint[2], 1))
                  /\ s > LastBreakpoint[1] =>
                        FracEq(applied[i].probability, Frac(LastBreakpoint[2], 1))
                  /\ \A k \in 1..(Len(b) - 1) :
                        (b[k][1] <= s /\ s <= b[k + 1][1]) =>
                            /\ FracLeq(Frac(b[k][2], 1), applied[i].probability)
                            /\ FracLeq(applied[i].probability, Frac(b[k + 1][2], 1))
                            /\ applied[i].probability.n * (b[k + 1][1] - b[k][1]) =
                                 applied[i].probability.d *
                                   (b[k][2] * (b[k + 1][1] - b[k][1])
                                      + (s - b[k][1]) * (b[k + 1][2] - b[k][2]))

(***************************************************************************)
(* The second phase of the orchestrators (reasoning and narrative).        *)
(***************************************************************************)
ScoreFields == {"status", "overall_score", "risk_level", "confidence", "recommendation",
                "risk_factors"}

\* the fields of ScoreFields are present in both results or absent in both, and equal
SameScoreFields(before, after) ==
    \A k \in ScoreFields :
        /\ (k \in DOMAIN before) <=> (k \in DOMAIN after)
        /\ k \in DOMAIN before => after[k] = before[k]

\* C22: from the return of calculate_score to the return of the analysis,
\* whether the reasoning task and the narrative task succeed or fail, the score
\* result keeps its overall_score, risk_level, confidence, recommendation and
\* risk_factors, only its reasoning field is written, and the values returned to
\* the caller are those of that score result.
C22_SecondPhaseKeepsScore ==
    [][ (pc \in {"scored", "gather2"}) =>
            /\ SameScoreFields(score_result, score_result')
            /\ DOMAIN score_result' \subseteq DOMAIN score_result \cup {"reasoning"}
            /\ (pc' = "returned") =>
                  ( /\ analysis_result'.scoring_details = score_result'
                    /\ analysis_result'.fraud_score = score_result.overall_score
                    /\ analysis_result'.risk_level = score_result.risk_level
                    /\ ("recommendation" \in DOMAIN score_result) =>
                          (analysis_result'.recommendation = score_result.recommendation)
                    /\ "reasoning" \in (DOMAIN score_result') ) ]_vars

C22_Witness ==
    /\ pc = "returned"
    /\ phase4.reasoning = "exc"
    /\ phase4.narrative = "ok"
    /\ score_result.status = "success"
    /\ score_result.overall_score > 0
    /\ score_result.reasoning = "Claim scored"
    /\ analysis_result.fraud_score = ExpectedScore.overall_score
    /\ analysis_result.scoring_details.confidence = ExpectedScore.confidence
    /\ analysis_result.scoring_details.risk_factors = ExpectedScore.risk_factors

\* the weighted score s = sum(f.score * f.weight) of a returned factor list, as
\* the fraction n / d of a twentieth of a point
FactorSum(rf) ==
    [n |-> SumSeq([i \in 1..Len(rf) |-> rf[i].score * rf[i].weight.num]),
     d |-> rf[1].weight.den]

IdFlow == id_consistency_results.tag # "none"

\* C23: the returned overall_score is the weighted score s rounded to one
\* decimal, raised by 5 exactly when the mode is rigid, the flow is the
\* identity-document flow and 0 < s < 50; a score of 0, a score of 50 or more,
\* every score in non-rigid mode and every score in the general flow is returned
\* without the nudge (the nudged score stays below 55, so the cap at 100 never
\* acts).
C23_NudgeOnlyRigidIdBand ==
    (pc = "direct_done" /\ score_result.status = "success") =>
        LET s == FactorSum(score_result.risk_factors)
            nudged == rigid /\ IdFlow /\ s.n > 0 /\ s.n < Pts(50) * s.d
        IN  /\ nudged =>
                  /\ score_result.overall_score =
                         RoundHalfEven(10 * (s.n + Pts(5) * s.d), Pts(1) * s.d)
                  /\ score_result.overall_score < 550
            /\ ~nudged =>
                  score_result.overall_score = RoundHalfEven(10 * s.n, Pts(1) * s.d)

C23_Witness ==
    /\ pc = "direct_done"
    /\ score_result.status = "success"
    /\ rigid
    /\ IdFlow
    /\ LET s == FactorSum(score_result.risk_factors)
       IN  /\ s.n > 0
           /\ s.n < Pts(50) * s.d
           /\ score_result.overall_score = RoundHalfEven(10 * s.n, Pts(1) * s.d) + 50

\* C24: for every score, moving from the default profile to the rigid general
\* profile, or from the rigid general profile to the rigid identity-document
\* profile, never lowers the level in low < medium < high < critical.
C24_StricterNeverLowers ==
    [][ (pc' = "profile_stricter") =>
            /\ lv_score' = lv_score
            /\ LevelRank(lv_risk_level) >= 1
            /\ LevelRank(lv_risk_level') >= LevelRank(lv_risk_level) ]_vars

C24_Witness ==
    /\ pc = "profile_stricter"
    /\ lv_is_id_flow
    /\ RIGID_SCORING = "unset"
    /\ lv_score = Pts(15)
    /\ lv_risk_level = "medium"

BothSucceeded ==
    /\ score_result.status = "success"
    /\ score_again.result.status = "success"

\* the raise took the weighted score from inside the nudge band (0 < s < 50) to
\* 50 or more, in rigid mode in the identity-document flow
LeftNudgeBand ==
    LET s == FactorSum(score_result.risk_factors)
        t == FactorSum(score_again.result.risk_factors)
    IN  /\ rigid
        /\ IdFlow
        /\ s.n > 0
        /\ s.n < Pts(50) * s.d
        /\ t.n >= Pts(50) * t.d

\* C25 as stated: with everything else fixed, raising the score of one risk
\* factor never lowers the returned overall_score, in every mode and flow.
C25_RaiseNeverLowers ==
    (pc = "direct_raised" /\ BothSucceeded) =>
        score_again.result.overall_score >= score_result.overall_score

\* C25 amended: with non-negative weights and everything else fixed, raising the
\* score of one risk factor never lowers the returned overall_score in non-rigid
\* mode, in the general flow, and in the rigid identity-document flow as long as
\* the weighted score does not leave the nudge band; when the raise takes the
\* weighted score from below 50 to 50 or more in the rigid identity-document
\* flow the +5 is lost and overall_score can fall, by at most 5.0.
C25_RaiseNeverLowersOutsideBandEdge ==
    (pc = "direct_raised" /\ BothSucceeded) =>
        /\ ~LeftNudgeBand => score_again.result.overall_score >= score_result.overall_score
        /\ score_again.result.overall_score >= score_result.overall_score - 50

C25_Witness ==
    /\ pc = "direct_raised"
    /\ BothSucceeded
    /\ LeftNudgeBand
    /\ score_again.result.overall_score < score_result.overall_score

\* C26: in every successful result, risk_level is the level that
\* _get_risk_level gives, under the active profile, to the overall_score that
\* is returned (the value rounded to one decimal).
C26_LevelOfReturnedScore ==
    (pc = "direct_done" /\ score_result.status = "success") =>
        score_result.risk_level =
            GetRiskLevel(Pts(1) * score_result.overall_score, 10, IdFlow, rigid)

\* the outcome of a first-phase task as _run_analysis is to hold it: the value
\* the source returned, None when the task was not launched or raised
OutcomeOf(s, launched) ==
    IF launched /\ env[s].mode # "raise" THEN AgentAnalyze(s, env[s]) ELSE None

\* C27: in _run_analysis, for each of the four combinations of include_network
\* and images present, network_result is the outcome of the network task and
\* deepfake_result the outcome of the deepfake task, None when that task was not
\* launched or raised; neither is ever the result of another source.
C27_SlotsReadOwnTask ==
    (flow = "insurance" /\ AfterGather) =>
        /\ network_result = OutcomeOf("network", include_network)
        /\ deepfake_result = OutcomeOf("deepfake", include_deepfake /\ image_paths > 0)
        /\ ~include_network => network_result = None
        /\ image_paths = 0 => deepfake_result = None

C27_Witness ==
    /\ flow = "insurance"
    /\ pc = "scoring"
    /\ ~include_network
    /\ include_deepfake
    /\ image_paths > 0
    /\ env.deepfake = Env("ok", Pts(90))
    /\ network_result = None
    /\ deepfake_result = Dict("success", Pts(90))

\* FP/(FP+TN) at threshold t is at most max_fpr, on the exact counts (max_fpr in
\* ten-thousandths; the rate is 0 when there are no negatives)
ExactFprWithinMax(t) == FalsePositivesAt(t) * 10000 <= call_args.max_fpr.v * Negatives

\* C28: when max_fpr is given, every threshold kept in value_sweep and the
\* threshold returned as best_threshold has an exact false-positive rate
\* FP/(FP+TN) that is at most max_fpr.
C28_KeptThresholdsWithinMaxFpr ==
    (pc = "optimized" /\ call_args.max_fpr.tag = "some") =>
        /\ \A i \in 1..Len(opt_result.value_sweep) :
              ExactFprWithinMax(opt_result.value_sweep[i].threshold)
        /\ opt_result.best_threshold.tag = "some" =>
              ExactFprWithinMax(opt_result.best_threshold.v)

(***************************************************************************)
(* DeepfakeAgent.analyze over its images, with the module-level switch     *)
(* _nim_vision_unavailable of agents/deepfake_agent.py.  The module never  *)
(* assigns the switch at import: it is "undefined" until line 203 sets it, *)
(* and reading an undefined global raises NameError.                       *)
(***************************************************************************)
MaxImages == 2
MaxAnalyses == 2

\* an image path: no file behind it, or a file with its _basic_checks score
ImageKinds == {"missing", "plain", "no_exif"}

BasicScore(image) == IF image = "no_exif" THEN 15 ELSE 0

\* what the vision model does when it is asked: an answer that parses to a
\* score (with AI_GENERATED: yes or no), a 404 / not-found error, another error
VisionResponses ==
    { [kind |-> "answer", score |-> sc, ai_yes |-> a] : sc \in {25, 80}, a \in BOOLEAN }
    \cup { [kind |-> "404", score |-> 0, ai_yes |-> FALSE],
           [kind |-> "error", score |-> 0, ai_yes |-> FALSE] }

ImageResult(kind, sc, ai, unavailable) ==
    [kind |-> kind, score |-> sc, ai_generated_score |-> ai, nim_unavailable |-> unavailable]

\* _basic_checks
BasicChecks(image) == ImageResult("basic", BasicScore(image), 0, FALSE)

\* _parse_ai_generated_id_response: the parsed score, raised to 65 when the
\* answer says AI_GENERATED: yes with a score below 60
ParseAiGeneratedIdResponse(response) ==
    IF response.ai_yes /\ response.score < 60 THEN 65 ELSE response.score

\* _analyze_image_bytes: the outcome of one call, with the value the switch has
\* after it and whether the vision model was contacted
AnalyzeImageBytes(switch, image, context, response) ==
    IF switch = "undefined"
    THEN [raised |-> TRUE, contacted |-> FALSE, switch |-> switch,
          result |-> ImageResult("NameError", 0, 0, FALSE)]
    ELSE IF switch = "true"
    THEN [raised |-> FALSE, contacted |-> FALSE, switch |-> switch,
          result |-> ImageResult("unavailable", 0, 0, TRUE)]
    ELSE IF response.kind = "answer"
    THEN [raised |-> FALSE, contacted |-> TRUE, switch |-> switch,
          result |-> ImageResult("vision", response.score,
                        IF context = "id_document"
                        THEN ParseAiGeneratedIdResponse(response) ELSE 0,
                        FALSE)]
    ELSE IF response.kind = "404"
    THEN [raised |-> FALSE, contacted |-> TRUE, switch |-> "true",
          result |-> ImageResult("unavailable", 0, 0, TRUE)]
    ELSE [raised |-> FALSE, contacted |-> TRUE, switch |-> switch,
          result |-> BasicChecks(image)]

\* one entry of the record of _analyze_image_bytes calls made in this process
CallEntry(call, response) ==
    [raised |-> call.raised, contacted |-> call.contacted,
     got_404 |-> call.contacted /\ response.kind = "404",
     nim_unavailable |-> call.result.nim_unavailable]

\* max(r.get("ai_generated_score", 0) for r in results, default=0)
RECURSIVE MaxAiGenerated(_, _)
MaxAiGenerated(image_results, i) ==
    IF i > Len(image_results) THEN 0
    ELSE Max(image_results[i].ai_generated_score, MaxAiGenerated(image_results, i + 1))

\* lines 63-96: the answer of analyze for the results collected
Aggregate(image_results, context) ==
    IF Len(image_results) = 0
    THEN [status |-> "success", manipulation_score |-> Frac(0, 1), images_analyzed |-> 0]
    ELSE IF \E i \in 1..Len(image_results) : image_results[i].nim_unavailable
    THEN [status |-> "skipped", manipulation_score |-> Frac(0, 1),
          images_analyzed |-> Len(image_results)]
    ELSE LET avg == Frac(SumSeq([i \in 1..Len(image_results) |-> image_results[i].score]),
                         Len(image_results))
             base == [status |-> "success", manipulation_score |-> avg,
                      images_analyzed |-> Len(image_results)]
         IN  IF context = "id_document"
             THEN [k \in DOMAIN base \cup {"ai_generated_score"} |->
                      IF k = "ai_generated_score"
                      THEN MaxAiGenerated(image_results, 1)
                      ELSE base[k]]
             ELSE base

\* line 100: the answer of analyze when anything inside it raised
AnalyzeError == [status |-> "error", manipulation_score |-> Frac(0, 1)]

\* the arguments of one analyze call
AnalyzeCalls ==
    { [image_paths |-> p, image_data |-> dt, context |-> c] :
        p \in SeqsUpTo(ImageKinds, MaxImages),
        dt \in {"none", "plain", "no_exif"},
        c \in {"none", "id_document"} }

NewAnalysis(a, calls, analyses) ==
    [args |-> a, i |-> 1, skip |-> FALSE, image_results |-> << >>, calls |-> calls,
     analyses |-> analyses, out |-> None]

InitDeepfake ==
    /\ OrchestratorIdle
    /\ ProfileIdle
    /\ MetricsIdle
    /\ EvalIdle
    /\ rigid = IsRigid(RIGID_SCORING)
    /\ applied = << >>
    /\ vector_store = None
    /\ collection = None
    /\ nim_vision_unavailable = "undefined"
    /\ \E a \in AnalyzeCalls : image_analysis = NewAnalysis(a, << >>, 1)
    /\ pc = "analyze"

DeepfakeUnchanged ==
    UNCHANGED << orchestrator, profilevars, metricvars, evalvars, applied, vector_store,
                 collection >>

\* lines 46-47: nothing to analyse
NoImages ==
    /\ pc = "analyze"
    /\ Len(image_analysis.args.image_paths) = 0
    /\ image_analysis.args.image_data = "none"
    /\ image_analysis' =
           [image_analysis EXCEPT !.out = [status |-> "skipped",
                                           manipulation_score |-> Frac(0, 1)]]
    /\ pc' = "analyzed"
    /\ UNCHANGED nim_vision_unavailable
    /\ DeepfakeUnchanged

\* one turn of the loop of lines 53-57 with _analyze_image (lines 102-116)
AnalyzeImage ==
    /\ pc = "analyze"
    /\ image_analysis.i <= Len(image_analysis.args.image_paths)
    /\ LET image == image_analysis.args.image_paths[image_analysis.i]
       IN  IF image = "missing"
           THEN /\ image_analysis' =
                       [image_analysis EXCEPT
                           !.i = @ + 1,
                           !.image_results = Append(@, ImageResult("not_found", 0, 0, FALSE))]
                /\ UNCHANGED << nim_vision_unavailable, pc >>
           ELSE IF image_analysis.skip
           THEN /\ image_analysis' =
                       [image_analysis EXCEPT
                           !.i = @ + 1,
                           !.image_results = Append(@, BasicChecks(image))]
                /\ UNCHANGED << nim_vision_unavailable, pc >>
           ELSE \E response \in VisionResponses :
                    LET call == AnalyzeImageBytes(nim_vision_unavailable, image,
                                                  image_analysis.args.context, response)
                    IN  /\ nim_vision_unavailable' = call.switch
                        /\ IF call.raised
                           THEN /\ image_analysis' =
                                       [image_analysis EXCEPT
                                           !.calls = Append(@, CallEntry(call, response)),
                                           !.out = AnalyzeError]
                                /\ pc' = "analyzed"
                           ELSE /\ image_analysis' =
                                       [image_analysis EXCEPT
                                           !.i = @ + 1,
                                           !.skip = @ \/ call.result.nim_unavailable,
                                           !.calls = Append(@, CallEntry(call, response)),
                                           !.image_results = Append(@, call.result)]
                                /\ UNCHANGED pc
    /\ DeepfakeUnchanged

\* lines 59-61: the raw image bytes, after the paths
AnalyzeImageData ==
    /\ pc = "analyze"
    /\ image_analysis.i > Len(image_analysis.args.image_paths)
    /\ image_analysis.args.image_data # "none"
    /\ \E response \in VisionResponses :
          LET call == AnalyzeImageBytes(nim_vision_unavailable,
                                        image_analysis.args.image_data,
                                        image_analysis.args.context, response)
          IN  /\ nim_vision_unavailable' = call.switch
              /\ IF call.raised
                 THEN image_analysis' =
                          [image_analysis EXCEPT
                              !.calls = Append(@, CallEntry(call, response)),
                              !.out = AnalyzeError]
                 ELSE image_analysis' =
                          [image_analysis EXCEPT
                              !.calls = Append(@, CallEntry(call, response)),
                              !.image_results = Append(@, call.result),
                              !.out = Aggregate(Append(image_analysis.image_results,
                                                       call.result),
                                                image_analysis.args.context)]
    /\ pc' = "analyzed"
    /\ DeepfakeUnchanged

\* lines 63-96 when there are no raw bytes
AggregateResults ==
    /\ pc = "analyze"
    /\ Len(image_analysis.args.image_paths) > 0
    /\ image_analysis.i > Len(image_analysis.args.image_paths)
    /\ image_analysis.args.image_data = "none"
    /\ image_analysis' =
           [image_analysis EXCEPT
               !.out = Aggregate(image_analysis.image_results, image_analysis.args.context)]
    /\ pc' = "analyzed"
    /\ UNCHANGED nim_vision_unavailable
    /\ DeepfakeUnchanged

\* the same process calls analyze again, on other images
AnalyzeAgain ==
    /\ pc = "analyzed"
    /\ image_analysis.analyses < MaxAnalyses
    /\ \E a \in AnalyzeCalls :
          image_analysis' = NewAnalysis(a, image_analysis.calls, image_analysis.analyses + 1)
    /\ pc' = "analyze"
    /\ UNCHANGED nim_vision_unavailable
    /\ DeepfakeUnchanged

NextDeepfake ==
    NoImages \/ AnalyzeImage \/ AnalyzeImageData \/ AggregateResults \/ AnalyzeAgain

DeepfakeSpec == InitDeepfake /\ [][NextDeepfake]_vars

MaxAgents == 2

\* the ids of FRAUD_PATTERNS
FraudPatternIds ==
    {"staged_accident_1", "phantom_vehicle_1", "medical_mill_1", "prior_damage_1",
     "identity_fraud_1", "premium_fraud_1", "inflated_claim_1", "fraud_ring_1"}

Collection(docs) == [tag |-> "collection", docs |-> docs]

EmptyCollection == Collection([id \in FraudPatternIds |-> 0])

\* a VectorStore object: whether the agent made it itself, and whether its
\* client is connected
Store(own, client) == [tag |-> "store", own |-> own, client |-> client]

\* VectorStore.initialize with use_lite: an existing collection is dropped and
\* an empty one created; an exception of pymilvus is logged and raised again;
\* the method has no return statement, so it returns None
VectorStoreInitialize(coll, backend) ==
    IF backend = "ok"
    THEN [raised |-> FALSE, returned |-> None, collection |-> EmptyCollection]
    ELSE [raised |-> TRUE, returned |-> None, collection |-> coll]

\* VectorStore.add_documents: one insert per document, under the id given
AddDocuments(coll, ids) ==
    Collection([id \in FraudPatternIds |->
                   IF id \in ids THEN coll.docs[id] + 1 ELSE coll.docs[id]])

\* initialize_fraud_patterns: add_documents with the texts, metadata and ids
\* of FRAUD_PATTERNS
InitializeFraudPatterns(coll) == AddDocuments(coll, FraudPatternIds)

\* the collection as earlier runs can have left it: absent, or holding any
\* subset of the default patterns
StoredCollections ==
    { None } \cup { Collection([id \in FraudPatternIds |-> IF id \in held THEN 1 ELSE 0]) :
                      held \in SUBSET FraudPatternIds }

InitPattern ==
    /\ OrchestratorIdle
    /\ ProfileIdle
    /\ MetricsIdle
    /\ EvalIdle
    /\ rigid = IsRigid(RIGID_SCORING)
    /\ applied = << >>
    /\ nim_vision_unavailable = "undefined"
    /\ image_analysis = None
    /\ vector_store \in { None, Store(FALSE, TRUE) }
    /\ collection \in StoredCollections
    /\ (vector_store # None) => (collection # None)
    /\ pc = "agent_1"

PatternUnchanged ==
    UNCHANGED << orchestrator, profilevars, metricvars, evalvars, applied,
                 nim_vision_unavailable, image_analysis >>

AgentNumber ==
    IF pc \in {"agent_1", "initialized_1", "init_raised_1"} THEN 1
    ELSE IF pc \in {"agent_2", "initialized_2", "init_raised_2"} THEN 2
    ELSE IF pc \in {"agent_3", "initialized_3", "init_raised_3"} THEN 3
    ELSE 0

PcOf(stage, n) ==
    IF n = 1 THEN (IF stage = "agent" THEN "agent_1"
                   ELSE IF stage = "initialized" THEN "initialized_1" ELSE "init_raised_1")
    ELSE IF n = 2 THEN (IF stage = "agent" THEN "agent_2"
                        ELSE IF stage = "initialized" THEN "initialized_2" ELSE "init_raised_2")
    ELSE (IF stage = "agent" THEN "agent_3"
          ELSE IF stage = "initialized" THEN "initialized_3" ELSE "init_raised_3")

\* PatternAgent.initialize on an agent that was given a vector store: nothing
InitializeWithStore ==
    /\ pc = PcOf("agent", AgentNumber)
    /\ AgentNumber > 0
    /\ vector_store # None
    /\ pc' = PcOf("initialized", AgentNumber)
    /\ UNCHANGED << vector_store, collection >>
    /\ PatternUnchanged

\* PatternAgent.initialize on an agent without a vector store: the store is
\* made and initialised, and the default patterns are loaded when the value
\* returned by VectorStore.initialize is truthy
InitializeWithoutStore ==
    /\ pc = PcOf("agent", AgentNumber)
    /\ AgentNumber > 0
    /\ vector_store = None
    /\ \E backend \in {"ok", "unavailable"} :
          LET r == VectorStoreInitialize(collection, backend)
              created == r.returned
          IN  /\ vector_store' = Store(TRUE, ~r.raised)
              /\ IF r.raised
                 THEN /\ collection' = r.collection
                      /\ pc' = PcOf("init_raised", AgentNumber)
                 ELSE /\ collection' = IF Truthy(created)
                                       THEN InitializeFraudPatterns(r.collection)
                                       ELSE r.collection
                      /\ pc' = PcOf("initialized", AgentNumber)
    /\ PatternUnchanged

\* the process makes another PatternAgent() without a vector store; the
\* collection on disk stays
NewPatternAgent ==
    /\ AgentNumber > 0
    /\ AgentNumber < MaxAgents
    /\ pc # PcOf("agent", AgentNumber)
    /\ vector_store' = None
    /\ pc' = PcOf("agent", AgentNumber + 1)
    /\ UNCHANGED collection
    /\ PatternUnchanged

NextPattern == InitializeWithStore \/ InitializeWithoutStore \/ NewPatternAgent

PatternSpec == InitPattern /\ [][NextPattern]_vars

\* C30: after PatternAgent.initialize has run on an agent that had no vector
\* store, the collection holds each default fraud pattern exactly once, however
\* many agents the process has initialised before.
C30_DefaultsHeldOnce ==
    (AgentNumber > 0 /\ pc = PcOf("initialized", AgentNumber) /\ vector_store.own) =>
        \A id \in FraudPatternIds : collection.docs[id] = 1

====
